---- MODULE Spec2Model ----
(***************************************************************************)
(* Model of the agent tools of the noop repository: the read-only          *)
(* operation classifier, the dynamic AWS API invoker and the auxiliary     *)
(* tools registered with the agents.                                       *)
(*                                                                         *)
(* Python strings whose characters matter (operation names) are sequences  *)
(* of one-character strings.  A message built by an f-string is the        *)
(* sequence of its pieces, the characters of an interpolated operation     *)
(* name being spliced in one by one.  A JSON text is the sequence of its   *)
(* lexical tokens.                                                         *)
(***************************************************************************)
EXTENDS Integers, Sequences, FiniteSets, TLC

VARIABLES
    tool,      \* name of the tool function invoked last ("none" at start)
    args,      \* the arguments of that invocation
    outcome,   \* what the invocation did: [kind |-> "return" | "raise", value]
    clients,   \* services for which boto3 built a client during it, in order
    calls,     \* provider actions invoked during it, in order
    reached,   \* every (tool, service, operation) that ever reached the provider
    ninv,      \* number of tool invocations made so far
    earlier,   \* what the invocation before did, kept while the last one is
               \* the same tool with the same arguments (NoArgs otherwise)
    name,      \* input of the classifier run
    verdict,   \* its result, "True" or "False" ("none" before it ran)
    pc,        \* concurrent invocations: the statement each is about to run
    frame,     \* concurrent invocations: the arguments and locals of each
    stored     \* the objects in the provider's storage: [bucket, key, object]

vars == <<tool, args, outcome, clients, calls, reached, ninv, earlier, name, verdict, pc, frame, stored>>

\* ---------------------------------------------------------------- bounds
MaxInvocations == 2
MaxNameLen == 3

MaxWorkers == 2

\* --------------------------------------------------------------- strings
UpperCase ==
    <<"A","B","C","D","E","F","G","H","I","J","K","L","M",
      "N","O","P","Q","R","S","T","U","V","W","X","Y","Z">>

LowerCase ==
    <<"a","b","c","d","e","f","g","h","i","j","k","l","m",
      "n","o","p","q","r","s","t","u","v","w","x","y","z">>

\* str.lower() on one character
lower_char(c) ==
    IF \E i \in DOMAIN UpperCase : UpperCase[i] = c
    THEN LowerCase[CHOOSE i \in DOMAIN UpperCase : UpperCase[i] = c]
    ELSE c

\* str.lower()
lower(s) == [i \in DOMAIN s |-> lower_char(s[i])]

\* a mutant of startswith: the prefix may occur anywhere in the string
startswith_anywhere(s, prefix) ==
    \E k \in 0..Len(s) :
        /\ k + Len(prefix) <= Len(s)
        /\ \A i \in 1..Len(prefix) : s[k + i] = prefix[i]

\* str.startswith(prefix)
startswith(s, prefix) ==
    /\ Len(prefix) <= Len(s)
    /\ \A i \in 1..Len(prefix) : s[i] = prefix[i]

\* ------------------------------------------------------------ classifier
read_prefixes == <<
    <<"d","e","s","c","r","i","b","e">>,
    <<"l","i","s","t">>,
    <<"g","e","t">>,
    <<"f","e","t","c","h">>,
    <<"r","e","a","d">>,
    <<"q","u","e","r","y">>,
    <<"s","e","a","r","c","h">>,
    <<"l","o","o","k","u","p">>,
    <<"f","i","n","d">>,
    <<"c","h","e","c","k">>,
    <<"v","a","l","i","d","a","t","e">>,
    <<"i","n","s","p","e","c","t">>,
    <<"s","c","a","n">>,
    <<"h","e","a","d">>,
    <<"e","x","i","s","t","s">>,
    <<"c","o","u","n","t">>,
    <<"e","s","t","i","m","a","t","e">>,
    <<"p","r","e","v","i","e","w">>,
    <<"s","h","o","w">>,
    <<"f","i","l","t","e","r">>
>>

\* a mutant of the classifier: the operation name is not lower-cased
is_read_operation_cased(operation) ==
    \E i \in DOMAIN read_prefixes : startswith(operation, read_prefixes[i])

\* any(operation.lower().startswith(prefix) for prefix in read_prefixes)
is_read_operation(operation) ==
    \E i \in DOMAIN read_prefixes : startswith(lower(operation), read_prefixes[i])

\* ------------------------------------------------------- operation names
\* the empty string
EmptyName == << >>

describe_instances ==
    <<"d","e","s","c","r","i","b","e","_","i","n","s","t","a","n","c","e","s">>

DescribeInstances ==
    <<"D","e","s","c","r","i","b","e","I","n","s","t","a","n","c","e","s">>

terminate_instances ==
    <<"t","e","r","m","i","n","a","t","e","_","i","n","s","t","a","n","c","e","s">>

terminate_instance ==
    <<"t","e","r","m","i","n","a","t","e","_","i","n","s","t","a","n","c","e">>

put_metric_alarm_name ==
    <<"p","u","t","_","m","e","t","r","i","c","_","a","l","a","r","m">>

PutMetricAlarmName ==
    <<"P","u","t","M","e","t","r","i","c","A","l","a","r","m">>

getting_started_guide ==
    <<"g","e","t","t","i","n","g","_","s","t","a","r","t","e","d","_","g","u","i","d","e">>

describe_x == <<"d","e","s","c","r","i","b","e","_","x">>

nonexistent_op_xyz ==
    <<"n","o","n","e","x","i","s","t","e","n","t","_","o","p","_","x","y","z">>

describe_alarms ==
    <<"d","e","s","c","r","i","b","e","_","a","l","a","r","m","s">>

get_resources == <<"g","e","t","_","r","e","s","o","u","r","c","e","s">>

\* names that hold a prefix elsewhere than at their start, or only part of one
NearMissNames == {
    <<"b","u","d","g","e","t">>,
    <<"u","n","l","i","s","t">>,
    <<"t","o","_","g","e","t">>,
    <<"h","e","a">>,
    <<"d","e","s","c","r","i","b">> }

\* names in upper or mixed case
MixedCaseNames == {
    <<"G","E","T">>,
    <<"L","i","s","t","e","n">>,
    <<"g","E","t","X">>,
    <<"H","E","A","D","_","o","b","j","e","c","t">>,
    <<"u","n","L","I","S","T">> }

NameAlphabet == {"g", "e", "t", "G", "E", "T", "_"}

\* every string over NameAlphabet of at most MaxNameLen characters
ShortNames == UNION {[1..n -> NameAlphabet] : n \in 0..MaxNameLen}

PrefixNames == {read_prefixes[i] : i \in DOMAIN read_prefixes}

ClassifierNames ==
    ShortNames \cup PrefixNames \cup NearMissNames \cup MixedCaseNames \cup
    {lower(n) : n \in MixedCaseNames} \cup
    {EmptyName, describe_instances, DescribeInstances, terminate_instances,
     terminate_instance, put_metric_alarm_name, PutMetricAlarmName,
     getting_started_guide, describe_x, nonexistent_op_xyz}

\* ------------------------------------------------------------------ JSON
\* A Python / JSON value is a tagged record: null, bool, num, str, arr (a
\* list), obj (a dict, as the sequence of its items in insertion order),
\* datetime (a datetime, named by its ISO-8601 rendering) and opaque (any
\* other Python object, named by its class).
JNull == [t |-> "null"]

JBool(b) == [t |-> "bool", v |-> b]

JNum(literal) == [t |-> "num", v |-> literal]

JStr(text) == [t |-> "str", v |-> text]

JArr(elements) == [t |-> "arr", v |-> elements]

JObj(items) == [t |-> "obj", v |-> items]

Item(key, value) == [k |-> key, v |-> value]

PyDatetime(iso) == [t |-> "datetime", v |-> iso]

PyOpaque(class) == [t |-> "opaque", v |-> class]

EmptyObject == JObj(<< >>)

\* tokens of a JSON text
Tok(kind, text) == [s |-> text, k |-> kind]

LBRACE == Tok("punct", "{")

RBRACE == Tok("punct", "}")

LBRACK == Tok("punct", "[")

RBRACK == Tok("punct", "]")

COLON == Tok("punct", ":")

COMMA == Tok("punct", ",")

ParseOk(value, next) == [next |-> next, ok |-> TRUE, val |-> value, msg |-> ""]

ParseErr(message) == [next |-> 0, ok |-> FALSE, val |-> JNull, msg |-> message]

\* dict[key] = value: a repeated key keeps its place and takes the new value
SetItem(items, key, value) ==
    IF \E i \in DOMAIN items : items[i].k = key
    THEN [i \in DOMAIN items |-> IF items[i].k = key THEN Item(key, value) ELSE items[i]]
    ELSE Append(items, Item(key, value))

RECURSIVE ParseValue(_, _)
RECURSIVE ParseElements(_, _, _)
RECURSIVE ParseMembers(_, _, _)

\* the JSON decoder: one value starting at token i
ParseValue(toks, i) ==
    IF i > Len(toks) THEN ParseErr("Expecting value")
    ELSE LET tk == toks[i] IN
         IF tk.k = "lit" /\ tk.s = "null" THEN ParseOk(JNull, i + 1)
         ELSE IF tk.k = "lit" /\ tk.s = "true" THEN ParseOk(JBool(TRUE), i + 1)
         ELSE IF tk.k = "lit" /\ tk.s = "false" THEN ParseOk(JBool(FALSE), i + 1)
         ELSE IF tk.k = "num" THEN ParseOk(JNum(tk.s), i + 1)
         ELSE IF tk.k = "str" THEN ParseOk(JStr(tk.s), i + 1)
         ELSE IF tk = LBRACK THEN
              IF i + 1 <= Len(toks) /\ toks[i + 1] = RBRACK
              THEN ParseOk(JArr(<< >>), i + 2)
              ELSE ParseElements(toks, i + 1, << >>)
         ELSE IF tk = LBRACE THEN
              IF i + 1 <= Len(toks) /\ toks[i + 1] = RBRACE
              THEN ParseOk(EmptyObject, i + 2)
              ELSE ParseMembers(toks, i + 1, << >>)
         ELSE ParseErr("Expecting value")

\* the elements of an array, after "[" or ","
ParseElements(toks, i, acc) ==
    LET r == ParseValue(toks, i) IN
    IF ~r.ok THEN r
    ELSE IF r.next > Len(toks) THEN ParseErr("Expecting ',' delimiter")
    ELSE IF toks[r.next] = COMMA
         THEN ParseElements(toks, r.next + 1, Append(acc, r.val))
    ELSE IF toks[r.next] = RBRACK
         THEN ParseOk(JArr(Append(acc, r.val)), r.next + 1)
    ELSE ParseErr("Expecting ',' delimiter")

\* the members of an object, after "{" or ","
ParseMembers(toks, i, acc) ==
    IF i > Len(toks) \/ toks[i].k # "str"
    THEN ParseErr("Expecting property name enclosed in double quotes")
    ELSE IF i + 1 > Len(toks) \/ toks[i + 1] # COLON
    THEN ParseErr("Expecting ':' delimiter")
    ELSE LET r == ParseValue(toks, i + 2) IN
         IF ~r.ok THEN r
         ELSE IF r.next > Len(toks) THEN ParseErr("Expecting ',' delimiter")
         ELSE IF toks[r.next] = COMMA
              THEN ParseMembers(toks, r.next + 1, SetItem(acc, toks[i].s, r.val))
         ELSE IF toks[r.next] = RBRACE
              THEN ParseOk(JObj(SetItem(acc, toks[i].s, r.val)), r.next + 1)
         ELSE ParseErr("Expecting ',' delimiter")

\* json.loads(text): the whole text must be one value; ok = FALSE stands for
\* a raised json.JSONDecodeError with message msg
json_loads(text) ==
    LET r == ParseValue(text, 1) IN
    IF ~r.ok THEN r
    ELSE IF r.next <= Len(text) THEN ParseErr("Extra data")
    ELSE r

\* the parameter strings callers pass
TextEmptyObject == <<LBRACE, RBRACE>>

TextNull == <<Tok("lit", "null")>>

TextMaxResults == <<LBRACE, Tok("str", "MaxResults"), COLON, Tok("num", "5"), RBRACE>>

TextBogusKey == <<LBRACE, Tok("str", "Bogus"), COLON, Tok("num", "1"), RBRACE>>

TextArray == <<LBRACK, Tok("num", "1"), RBRACK>>

TextNumber == <<Tok("num", "5")>>

TextString == <<Tok("str", "MaxResults")>>

TextNotJson == <<Tok("junk", "not"), Tok("junk", "valid"), Tok("junk", "json")>>

TextUnclosed == <<LBRACE, Tok("str", "MaxResults"), COLON>>

TextExtraData == <<LBRACE, RBRACE, RBRACE>>

TextBlank == << >>

ParameterTexts ==
    {TextEmptyObject, TextNull, TextMaxResults, TextBogusKey, TextArray,
     TextNumber, TextString, TextNotJson, TextUnclosed, TextExtraData, TextBlank}

\* ------------------------------------------------------- JSON encoding
\* str(value) of a Python object: a string named by the object it renders
PyRepr(value) == [t |-> "repr", v |-> value]

\* a mutant of the rendering: the datetime becomes a number (its timestamp)
isoformat_as_number(obj) == JNum(obj.v)

\* datetime.isoformat(): the datetime's ISO-8601 rendering, a str
isoformat(obj) == JStr(obj.v)

\* a mutant of json_serializer: it also renders any other object as a string
json_serializer_any(obj) ==
    IF obj.t = "datetime"
    THEN [ok |-> TRUE, val |-> isoformat(obj)]
    ELSE [ok |-> TRUE, val |-> JStr(obj.v)]

\* the default= hook of json.dumps; ok = FALSE stands for its TypeError
json_serializer(obj) ==
    IF obj.t = "datetime"
    THEN [ok |-> TRUE, val |-> isoformat(obj)]
    ELSE [ok |-> FALSE, val |-> JNull]

RECURSIVE Encodable(_)
\* json.dumps(value, default=json_serializer) raises no TypeError
Encodable(value) ==
    IF value.t \in {"null", "bool", "num", "str"} THEN TRUE
    ELSE IF value.t = "arr" THEN \A i \in DOMAIN value.v : Encodable(value.v[i])
    ELSE IF value.t = "obj" THEN \A i \in DOMAIN value.v : Encodable(value.v[i].v)
    ELSE json_serializer(value).ok /\ Encodable(json_serializer(value).val)

RECURSIVE json_dumps(_)
RECURSIVE EncodeElements(_, _)
RECURSIVE EncodeMembers(_, _)

\* json.dumps(value, default=json_serializer), for an encodable value
json_dumps(value) ==
    IF value.t = "null" THEN <<Tok("lit", "null")>>
    ELSE IF value.t = "bool"
         THEN <<Tok("lit", IF value.v THEN "true" ELSE "false")>>
    ELSE IF value.t = "num" THEN <<Tok("num", value.v)>>
    ELSE IF value.t = "str" THEN <<Tok("str", value.v)>>
    ELSE IF value.t = "arr" THEN <<LBRACK>> \o EncodeElements(value.v, 1) \o <<RBRACK>>
    ELSE IF value.t = "obj" THEN <<LBRACE>> \o EncodeMembers(value.v, 1) \o <<RBRACE>>
    ELSE json_dumps(json_serializer(value).val)

EncodeElements(elements, i) ==
    IF i > Len(elements) THEN << >>
    ELSE json_dumps(elements[i]) \o
         (IF i < Len(elements) THEN <<COMMA>> ELSE << >>) \o
         EncodeElements(elements, i + 1)

EncodeMembers(items, i) ==
    IF i > Len(items) THEN << >>
    ELSE <<Tok("str", items[i].k), COLON>> \o json_dumps(items[i].v) \o
         (IF i < Len(items) THEN <<COMMA>> ELSE << >>) \o
         EncodeMembers(items, i + 1)

\* try: json.loads(json.dumps(response, default=json_serializer))
\* except Exception: str(response)
serialized_response(response) ==
    IF Encodable(response)
    THEN json_loads(json_dumps(response)).val
    ELSE PyRepr(response)

\* ------------------------------------------------------------- provider
\* What the world outside the tools does is drawn from these sets: whether
\* boto3 can build a client, and what an invoked action returns or raises.
KnownServices == {"ec2", "cloudwatch", "s3", "resourcegroupstaggingapi"}

Services == {"", "ec2", "cloudwatch", "nosuch"}

Exception(type, message) == [msg |-> message, type |-> type]

Returned(value) == [value |-> value, kind |-> "return"]

Raised(type, message) == [value |-> Exception(type, message), kind |-> "raise"]

RespPlain == JObj(<<Item("Reservations", JArr(<< >>)), Item("Count", JNum("0"))>>)

RespTime ==
    JObj(<<Item("LaunchTime", PyDatetime("2024-05-01T12:00:00+00:00")),
           Item("Count", JNum("1")),
           Item("Volumes",
                JArr(<<JObj(<<Item("AttachTime", PyDatetime("2024-05-02T08:30:00+00:00")),
                              Item("Encrypted", JBool(FALSE)),
                              Item("KmsKeyId", JNull),
                              Item("Device", JStr("/dev/xvda"))>>),
                       PyDatetime("2024-05-03T00:00:00"),
                       JNum("2.5")>>))>>)

RespStream == JObj(<<Item("Body", PyOpaque("StreamingBody"))>>)

Responses == {RespPlain, RespTime, RespStream}

ProviderErrors ==
    {Exception("ClientError", <<"An error occurred (AccessDenied)">>),
     Exception("EndpointConnectionError", <<"Could not connect to the endpoint URL">>)}

ProviderOutcomes ==
    {Returned(r) : r \in Responses} \cup
    {[value |-> e, kind |-> "raise"] : e \in ProviderErrors}

\* session / client construction: "ok", or "raise" (no region, no credentials)
Environments == [client : {"ok", "raise"}, call : ProviderOutcomes]

\* one attribute of a client object, as dir() and getattr() see it
Attr(attrname, callable) == [name |-> attrname, callable |-> callable]

\* dir(client): the attributes of the client boto3 builds for a service
ClientDir(service) ==
    IF service = "ec2" THEN
        <<Attr(<<"_","g","e","t","_","w","a","i","t","e","r","_","c","o","n","f","i","g">>, TRUE),
          Attr(<<"_","m","a","k","e","_","a","p","i","_","c","a","l","l">>, TRUE),
          Attr(<<"c","l","o","s","e">>, TRUE),
          Attr(describe_instances, TRUE),
          Attr(<<"g","e","t","_","w","a","i","t","e","r">>, TRUE),
          Attr(<<"m","e","t","a">>, FALSE),
          Attr(terminate_instances, TRUE)>>
    ELSE IF service = "cloudwatch" THEN
        <<Attr(<<"_","g","e","t","_","w","a","i","t","e","r","_","c","o","n","f","i","g">>, TRUE),
          Attr(<<"_","m","a","k","e","_","a","p","i","_","c","a","l","l">>, TRUE),
          Attr(<<"c","l","o","s","e">>, TRUE),
          Attr(describe_alarms, TRUE),
          Attr(<<"g","e","t","_","w","a","i","t","e","r">>, TRUE),
          Attr(<<"m","e","t","a">>, FALSE),
          Attr(put_metric_alarm_name, TRUE)>>
    ELSE <<Attr(<<"c","l","o","s","e">>, TRUE), Attr(<<"m","e","t","a">>, FALSE)>>

\* the keyword arguments the provider's actions know
KnownParameters == {"MaxResults"}

\* boto3.client(service)
boto3_client(service, env) ==
    IF service \notin KnownServices
    THEN Raised("UnknownServiceError", <<"Unknown service: '", service, "'">>)
    ELSE IF env.client = "raise"
    THEN Raised("NoRegionError", <<"You must specify a region.">>)
    ELSE Returned(service)

\* getattr(client, operation, None): found = FALSE stands for None
getattr(service, attrname) ==
    LET d == ClientDir(service) IN
    IF \E i \in DOMAIN d : d[i].name = attrname
    THEN [callable |-> d[CHOOSE i \in DOMAIN d : d[i].name = attrname].callable,
          found |-> TRUE]
    ELSE [callable |-> FALSE, found |-> FALSE]

\* client.<operation>(**kwargs): botocore rejects unknown parameters, and
\* otherwise the provider answers as the environment decides
provider_call(kwargs, env) ==
    IF \E i \in DOMAIN kwargs.v : kwargs.v[i].k \notin KnownParameters
    THEN Raised("ParamValidationError", <<"Parameter validation failed">>)
    ELSE env.call

\* ---------------------------------------------------------------- tools
\* What running a tool function did: it returned value, or an exception
\* (value) left it; clients and calls are the boto3 clients it built and the
\* provider actions it invoked, in order.
Run(kind, value, builtClients, madeCalls) ==
    [clients |-> builtClients, calls |-> madeCalls, value |-> value, kind |-> kind]

\* the dict {"error": message}
Error(message) == [error |-> message]

\* one invocation of a provider action, with what it returned or raised
Call(service, operation, kwargs, result) ==
    [operation |-> operation, service |-> service, kwargs |-> kwargs, result |-> result]

MsgInvalidJson == "Invalid JSON in parameters: "

MsgNotAllowed == "' is not allowed. Only read operations are permitted."

MsgServiceMissing == "Service name must be specified for invoking AWS API operations."

MsgOperationMissing == "Operation name must be specified for invoking AWS API operations."

MsgNotFound == "' not found in service '"

\* a mutant of the call: a failed action is tried a second time
invoke_aws_api_call_retrying(service, operation, api_parameters, env) ==
    IF api_parameters.t # "obj"
    THEN Run("raise", Exception("TypeError", <<"argument after ** must be a mapping">>),
             <<service>>, << >>)
    ELSE LET r == provider_call(api_parameters, env)
             call == Call(service, operation, api_parameters, r)
         IN IF r.kind = "raise"
            THEN Run("raise", r.value, <<service>>, <<call, call>>)
            ELSE Run("return",
                     [operation |-> operation, response |-> serialized_response(r.value),
                      service |-> service,
                      function |-> "invoke_aws_api"],
                     <<service>>, <<call>>)

\* a mutant of the result: the success object also echoes the parameters
invoke_aws_api_call_echoing(service, operation, api_parameters, env) ==
    IF api_parameters.t # "obj"
    THEN Run("raise", Exception("TypeError", <<"argument after ** must be a mapping">>),
             <<service>>, << >>)
    ELSE LET r == provider_call(api_parameters, env)
             call == Call(service, operation, api_parameters, r)
         IN IF r.kind = "raise"
            THEN Run("raise", r.value, <<service>>, <<call>>)
            ELSE Run("return",
                     [operation |-> operation, response |-> serialized_response(r.value),
                      service |-> service,
                      function |-> "invoke_aws_api", parameters |-> api_parameters],
                     <<service>>, <<call>>)

\* a mutant of the serialization: the TypeError of json.dumps is not caught
\* where it is raised, and leaves the function body
invoke_aws_api_call_strict(service, operation, api_parameters, env) ==
    IF api_parameters.t # "obj"
    THEN Run("raise", Exception("TypeError", <<"argument after ** must be a mapping">>),
             <<service>>, << >>)
    ELSE LET r == provider_call(api_parameters, env)
             call == Call(service, operation, api_parameters, r)
         IN IF r.kind = "raise"
            THEN Run("raise", r.value, <<service>>, <<call>>)
            ELSE IF ~Encodable(r.value)
            THEN Run("raise",
                     Exception("TypeError", <<"Object is not JSON serializable">>),
                     <<service>>, <<call>>)
            ELSE Run("return",
                     [operation |-> operation, response |-> serialized_response(r.value),
                      service |-> service,
                      function |-> "invoke_aws_api"],
                     <<service>>, <<call>>)

\* response = method(**api_parameters), its serialization and the result
invoke_aws_api_call(service, operation, api_parameters, env) ==
    IF api_parameters.t # "obj"
    THEN Run("raise", Exception("TypeError", <<"argument after ** must be a mapping">>),
             <<service>>, << >>)
    ELSE LET r == provider_call(api_parameters, env)
             call == Call(service, operation, api_parameters, r)
         IN IF r.kind = "raise"
            THEN Run("raise", r.value, <<service>>, <<call>>)
            ELSE Run("return",
                     [operation |-> operation, response |-> serialized_response(r.value),
                      service |-> service,
                      function |-> "invoke_aws_api"],
                     <<service>>, <<call>>)

\* a mutant of the resolution: an unresolved operation is called all the same
invoke_aws_api_resolve_unchecked(service, operation, api_parameters, env) ==
    LET client == boto3_client(service, env) IN
    IF client.kind = "raise" THEN Run("raise", client.value, << >>, << >>)
    ELSE invoke_aws_api_call(service, operation, api_parameters, env)

\* client = boto3.client(service); method = getattr(client, operation, None)
invoke_aws_api_resolve(service, operation, api_parameters, env) ==
    LET client == boto3_client(service, env) IN
    IF client.kind = "raise" THEN Run("raise", client.value, << >>, << >>)
    ELSE LET method == getattr(service, operation) IN
         IF ~method.found
         THEN Run("return",
                  Error(<<"Operation '">> \o operation \o <<MsgNotFound, service, "'">>),
                  <<service>>, << >>)
         ELSE IF ~method.callable
         THEN Run("raise", Exception("TypeError", <<"object is not callable">>),
                  <<service>>, << >>)
         ELSE invoke_aws_api_call(service, operation, api_parameters, env)

\* a mutant of the identifier checks: the empty service is let through
invoke_aws_api_identifiers_unchecked(service, operation, api_parameters, env) ==
    IF operation = EmptyName THEN Run("return", Error(<<MsgOperationMissing>>), << >>, << >>)
    ELSE invoke_aws_api_resolve(service, operation, api_parameters, env)

\* if not service: ... if not operation: ...
invoke_aws_api_identifiers(service, operation, api_parameters, env) ==
    IF service = "" THEN Run("return", Error(<<MsgServiceMissing>>), << >>, << >>)
    ELSE IF operation = EmptyName
    THEN Run("return", Error(<<MsgOperationMissing>>), << >>, << >>)
    ELSE invoke_aws_api_resolve(service, operation, api_parameters, env)

\* a mutant of the gate: every operation is let through
invoke_aws_api_gate_open(service, operation, api_parameters, env) ==
    invoke_aws_api_identifiers(service, operation, api_parameters, env)

\* if not is_read_operation(operation): ...
invoke_aws_api_gate(service, operation, api_parameters, env) ==
    IF ~is_read_operation(operation)
    THEN Run("return", Error(<<"Operation '">> \o operation \o <<MsgNotAllowed>>),
             << >>, << >>)
    ELSE invoke_aws_api_identifiers(service, operation, api_parameters, env)

\* a mutant of the parsing step: the gate runs before the parameters are parsed
invoke_aws_api_parse_late(service, operation, parameters, env) ==
    IF ~is_read_operation(operation)
    THEN Run("return", Error(<<"Operation '">> \o operation \o <<MsgNotAllowed>>),
             << >>, << >>)
    ELSE LET parsed == json_loads(parameters) IN
         IF ~parsed.ok
         THEN Run("return", Error(<<MsgInvalidJson, parsed.msg>>), << >>, << >>)
         ELSE invoke_aws_api_identifiers(service, operation,
                  IF parsed.val = JNull THEN EmptyObject ELSE parsed.val, env)

\* a mutant of the parsing step: parameters that are not an object are refused
invoke_aws_api_parse_shape_checked(service, operation, parameters, env) ==
    LET parsed == json_loads(parameters) IN
    IF ~parsed.ok
    THEN Run("return", Error(<<MsgInvalidJson, parsed.msg>>), << >>, << >>)
    ELSE IF parsed.val.t \notin {"null", "obj"}
    THEN Run("return", Error(<<"Parameters must be a JSON object">>), << >>, << >>)
    ELSE invoke_aws_api_gate(service, operation,
             IF parsed.val = JNull THEN EmptyObject ELSE parsed.val, env)

\* a mutant of the parsing step: None is passed on as it is
invoke_aws_api_parse_none_kept(service, operation, parameters, env) ==
    LET parsed == json_loads(parameters) IN
    IF ~parsed.ok
    THEN Run("return", Error(<<MsgInvalidJson, parsed.msg>>), << >>, << >>)
    ELSE invoke_aws_api_gate(service, operation, parsed.val, env)

\* api_parameters = json.loads(parameters), None becoming {}
invoke_aws_api_parse(service, operation, parameters, env) ==
    LET parsed == json_loads(parameters) IN
    IF ~parsed.ok
    THEN Run("return", Error(<<MsgInvalidJson, parsed.msg>>), << >>, << >>)
    ELSE invoke_aws_api_gate(service, operation,
             IF parsed.val = JNull THEN EmptyObject ELSE parsed.val, env)

\* a mutant of the handler: the exception goes on to the caller
Propagate(r) == r

\* except Exception as e: return {"error": str(e)}
CatchAll(r) ==
    IF r.kind = "raise"
    THEN [r EXCEPT !.kind = "return", !.value = Error(r.value.msg)]
    ELSE r

\* the tool invoke_aws_api
invoke_aws_api(service, operation, parameters, env) ==
    CatchAll(invoke_aws_api_parse(service, operation, parameters, env))

\* ----------------------------------------------------- put_metric_alarm
InvestigatorArn == "arn:aws:lambda:us-east-1:129463259399:function:invoke-investigator"

TextEmptyArray == <<LBRACK, RBRACK>>

\* a list of one action ARN of the caller's choice
TextOtherArn == <<LBRACK, Tok("str", "arn:aws:sns:us-east-1:111122223333:ops"), RBRACK>>

\* Python None
None == JNull

\* a mutant of the optional parameters: they are set whatever their value
OptionalItem_always(items, key, value) == SetItem(items, key, value)

\* params['DatapointsToAlarm'] / params['Unit'] are set if not None
OptionalItem(items, key, value) ==
    IF value # None THEN SetItem(items, key, value) ELSE items

\* a mutant of the params dict: the alarm actions are those the caller gave
\* for the OK state
put_metric_alarm_call_caller_actions(a, dimensions_list, insufficient_list, ok_actions_list, env) ==
    LET base == <<Item("AlarmName", JStr(a.alarm_name)),
                  Item("ComparisonOperator", JStr(a.comparison_operator)),
                  Item("EvaluationPeriods", a.evaluation_periods),
                  Item("MetricName", JStr(a.metric_name)),
                  Item("Namespace", JStr(a.namespace)),
                  Item("Period", a.period),
                  Item("Statistic", JStr(a.statistic)),
                  Item("Threshold", a.threshold),
                  Item("ActionsEnabled", JBool(a.actions_enabled)),
                  Item("AlarmDescription", JStr(a.alarm_description)),
                  Item("Dimensions", dimensions_list),
                  Item("InsufficientDataActions", insufficient_list),
                  Item("OKActions", ok_actions_list),
                  Item("TreatMissingData", JStr(a.treat_missing_data)),
                  Item("AlarmActions", ok_actions_list)>>
        params == JObj(OptionalItem(
                      OptionalItem(base, "DatapointsToAlarm", a.datapoints_to_alarm),
                      "Unit", a.unit))
        client == boto3_client("cloudwatch", env)
    IN IF client.kind = "raise" THEN Run("raise", client.value, << >>, << >>)
       ELSE LET call == Call("cloudwatch", put_metric_alarm_name, params, env.call) IN
            IF env.call.kind = "raise"
            THEN Run("raise", env.call.value, <<"cloudwatch">>, <<call>>)
            ELSE Run("return",
                     [response |-> env.call.value, function |-> "put_metric_alarm",
                      alarm_name |-> a.alarm_name],
                     <<"cloudwatch">>, <<call>>)

\* the params dict built from the arguments, and the call made with it
put_metric_alarm_call(a, dimensions_list, insufficient_list, ok_actions_list, env) ==
    LET base == <<Item("AlarmName", JStr(a.alarm_name)),
                  Item("ComparisonOperator", JStr(a.comparison_operator)),
                  Item("EvaluationPeriods", a.evaluation_periods),
                  Item("MetricName", JStr(a.metric_name)),
                  Item("Namespace", JStr(a.namespace)),
                  Item("Period", a.period),
                  Item("Statistic", JStr(a.statistic)),
                  Item("Threshold", a.threshold),
                  Item("ActionsEnabled", JBool(a.actions_enabled)),
                  Item("AlarmDescription", JStr(a.alarm_description)),
                  Item("Dimensions", dimensions_list),
                  Item("InsufficientDataActions", insufficient_list),
                  Item("OKActions", ok_actions_list),
                  Item("TreatMissingData", JStr(a.treat_missing_data)),
                  Item("AlarmActions", JArr(<<JStr(InvestigatorArn)>>))>>
        params == JObj(OptionalItem(
                      OptionalItem(base, "DatapointsToAlarm", a.datapoints_to_alarm),
                      "Unit", a.unit))
        client == boto3_client("cloudwatch", env)
    IN IF client.kind = "raise" THEN Run("raise", client.value, << >>, << >>)
       ELSE LET call == Call("cloudwatch", put_metric_alarm_name, params, env.call) IN
            IF env.call.kind = "raise"
            THEN Run("raise", env.call.value, <<"cloudwatch">>, <<call>>)
            ELSE Run("return",
                     [response |-> env.call.value, function |-> "put_metric_alarm",
                      alarm_name |-> a.alarm_name],
                     <<"cloudwatch">>, <<call>>)

\* the three json.loads of the string arguments, in the order of the code
put_metric_alarm_parse(a, env) ==
    LET d == json_loads(a.dimensions)
        i == json_loads(a.insufficient_data_actions)
        o == json_loads(a.ok_actions)
    IN IF ~d.ok THEN Run("return", Error(<<MsgInvalidJson, d.msg>>), << >>, << >>)
       ELSE IF ~i.ok THEN Run("return", Error(<<MsgInvalidJson, i.msg>>), << >>, << >>)
       ELSE IF ~o.ok THEN Run("return", Error(<<MsgInvalidJson, o.msg>>), << >>, << >>)
       ELSE put_metric_alarm_call(a, d.val, i.val, o.val, env)

\* a mutant of put_metric_alarm: the operation goes through the read-only
\* filter as an operation of invoke_aws_api does
put_metric_alarm_filtered(a, env) ==
    IF ~is_read_operation(put_metric_alarm_name)
    THEN Run("return", Error(<<"Operation '">> \o put_metric_alarm_name \o <<MsgNotAllowed>>),
             << >>, << >>)
    ELSE CatchAll(put_metric_alarm_parse(a, env))

\* the tool put_metric_alarm
put_metric_alarm(a, env) == CatchAll(put_metric_alarm_parse(a, env))

\* the arguments callers pass to put_metric_alarm
AlarmArguments ==
    [alarm_name : {"cpu-high"},
     comparison_operator : {"GreaterThanThreshold"},
     evaluation_periods : {JNum("2")},
     metric_name : {"CPUUtilization"},
     namespace : {"AWS/EC2"},
     period : {JNum("300")},
     statistic : {"Average"},
     threshold : {JNum("80.0")},
     actions_enabled : {TRUE},
     alarm_description : {""},
     treat_missing_data : {"notBreaching"},
     datapoints_to_alarm : {None, JNum("2")},
     unit : {None, JStr("Percent")},
     dimensions : {TextEmptyArray, TextNotJson},
     insufficient_data_actions : {TextEmptyArray, TextUnclosed},
     ok_actions : {TextEmptyArray, TextOtherArn, TextExtraData}]

\* ------------------------------------------------------ enumeration tools
\* session.get_available_services()
AvailableServices == <<"cloudwatch", "ec2", "resourcegroupstaggingapi", "s3">>

\* boto3.Session()
boto3_Session(env) ==
    IF env.client = "raise"
    THEN Raised("ProfileNotFound", <<"The config profile could not be found">>)
    ELSE Returned("session")

\* the tool list_available_services
list_available_services(env) ==
    CatchAll(
        LET session == boto3_Session(env) IN
        IF session.kind = "raise" THEN Run("raise", session.value, << >>, << >>)
        ELSE Run("return",
                 [function |-> "list_available_services", services |-> AvailableServices],
                 << >>, << >>))

Underscore == <<"_">>

\* [method for method in dir(client)
\*  if callable(getattr(client, method)) and not method.startswith('_')]
public_callables(service) ==
    LET d == ClientDir(service)
        Public(a) == a.callable /\ ~startswith(a.name, Underscore)
        kept == SelectSeq(d, Public)
    IN [i \in DOMAIN kept |-> kept[i].name]

\* a mutant of list_service_operations: the operations are not filtered
list_service_operations_unfiltered(service, env) ==
    CatchAll(
        LET session == boto3_Session(env)
            client == boto3_client(service, env)
        IN IF session.kind = "raise" THEN Run("raise", session.value, << >>, << >>)
           ELSE IF client.kind = "raise" THEN Run("raise", client.value, << >>, << >>)
           ELSE Run("return",
                    [service |-> service, function |-> "list_service_operations",
                     operations |-> public_callables(service),
                     total_operations |-> Len(public_callables(service))],
                    <<service>>, << >>))

\* the tool list_service_operations
list_service_operations(service, env) ==
    CatchAll(
        LET session == boto3_Session(env)
            client == boto3_client(service, env)
            read_operations == SelectSeq(public_callables(service), is_read_operation)
        IN IF session.kind = "raise" THEN Run("raise", session.value, << >>, << >>)
           ELSE IF client.kind = "raise" THEN Run("raise", client.value, << >>, << >>)
           ELSE Run("return",
                    [service |-> service, function |-> "list_service_operations",
                     operations |-> read_operations,
                     total_operations |-> Len(read_operations)],
                    <<service>>, << >>))

\* the tool list_resources
list_resources(env) ==
    CatchAll(
        LET client == boto3_client("resourcegroupstaggingapi", env) IN
        IF client.kind = "raise" THEN Run("raise", client.value, << >>, << >>)
        ELSE LET call == Call("resourcegroupstaggingapi", get_resources,
                              EmptyObject, env.call) IN
             IF env.call.kind = "raise"
             THEN Run("raise", env.call.value, <<"resourcegroupstaggingapi">>, <<call>>)
             ELSE Run("return",
                      [function |-> "list_resources", resources |-> env.call.value],
                      <<"resourcegroupstaggingapi">>, <<call>>))

\* ------------------------------------------- read_account_discovery_results
get_object == <<"g","e","t","_","o","b","j","e","c","t">>

DiscoveryBucket == "noop-storage"

DiscoveryKey == "discovery-results.md"

\* what s3.get_object finds: the stored text, bytes that are no UTF-8, or no
\* such key
StoredObjects ==
    {Returned([body |-> "# Discovery", utf8 |-> TRUE]),
     Returned([body |-> "\\xff\\xfe", utf8 |-> FALSE]),
     Raised("NoSuchKey", <<"The specified key does not exist.">>)}

StorageEnvironments == [client : {"ok", "raise"}, call : StoredObjects]

\* the tool read_account_discovery_results
read_account_discovery_results(env) ==
    CatchAll(
        LET client == boto3_client("s3", env) IN
        IF client.kind = "raise" THEN Run("raise", client.value, << >>, << >>)
        ELSE LET call == Call("s3", get_object,
                              JObj(<<Item("Bucket", JStr(DiscoveryBucket)),
                                     Item("Key", JStr(DiscoveryKey))>>),
                              env.call) IN
             IF env.call.kind = "raise"
             THEN Run("raise", env.call.value, <<"s3">>, <<call>>)
             ELSE IF ~env.call.value.utf8
             THEN Run("raise",
                      Exception("UnicodeDecodeError", <<"'utf-8' codec can't decode byte">>),
                      <<"s3">>, <<call>>)
             ELSE Run("return",
                      [function |-> "read_account_discovery_results",
                       results |-> env.call.value.body],
                      <<"s3">>, <<call>>))

\* --------------------------------------------------- calculate_time_range
\* A datetime is a number of ticks since the epoch (TicksPerSecond ticks make
\* a second, so that a datetime can lie between two whole seconds) and
\* whether it carries a time zone.  Datetimes exist only within DatetimeSpan
\* ticks of the epoch, beyond which datetime arithmetic raises OverflowError.
\* The local time zone is taken to be UTC.
TicksPerSecond == 2

DatetimeSpan == 400

Datetime(ticks, aware) == [ticks |-> ticks, aware |-> aware]

\* an end_time string: its date and time part and its zone suffix
TimeText(body, zone) == [body |-> body, zone |-> zone]

NowText == TimeText("now", "")

\* end_time.replace('Z', '+00:00')
replace_Z(text) == IF text.zone = "Z" THEN TimeText(text.body, "+00:00") ELSE text

\* datetime.fromisoformat(text); ok = FALSE stands for its ValueError
fromisoformat(text) ==
    IF text.zone \notin {"", "+00:00"} THEN [ok |-> FALSE, val |-> Datetime(0, FALSE)]
    ELSE IF text.body = "1970-01-01T00:01:00"
         THEN [ok |-> TRUE, val |-> Datetime(60 * TicksPerSecond, text.zone # "")]
    ELSE IF text.body = "1970-01-01T00:00:03.500000"
         THEN [ok |-> TRUE,
               val |-> Datetime(3 * TicksPerSecond + TicksPerSecond \div 2, text.zone # "")]
    ELSE [ok |-> FALSE, val |-> Datetime(0, FALSE)]

\* a mutant of int(): it rounds down
TruncDiv_floor(x, y) == x \div y

\* int(x / y) for integers: Python's int() rounds toward zero
TruncDiv(x, y) == IF x >= 0 THEN x \div y ELSE -((-x) \div y)

\* the dict rendered for one end of the range
TimePoint(dt) ==
    [iso_format |-> [isoformat |-> dt],
     timestamp_seconds |-> TruncDiv(dt.ticks, TicksPerSecond),
     timestamp_milliseconds |-> TruncDiv(dt.ticks * 1000, TicksPerSecond),
     formatted |-> [strftime |-> dt.ticks \div TicksPerSecond]]

\* the tool calculate_time_range
calculate_time_range(duration_minutes, end_time, now) ==
    CatchAll(
        LET parsed == fromisoformat(replace_Z(end_time))
            end_dt == IF end_time = NowText THEN now
                      ELSE IF parsed.ok THEN parsed.val
                      ELSE now
            start_ticks == end_dt.ticks - duration_minutes * 60 * TicksPerSecond
        IN IF start_ticks < -DatetimeSpan \/ start_ticks > DatetimeSpan
           THEN Run("raise", Exception("OverflowError", <<"date value out of range">>),
                    << >>, << >>)
           ELSE Run("return",
                    [function |-> "calculate_time_range",
                     duration_minutes |-> duration_minutes,
                     end_time |-> TimePoint(end_dt),
                     start_time |-> TimePoint(Datetime(start_ticks, end_dt.aware)),
                     duration_seconds |-> duration_minutes * 60],
                    << >>, << >>))

\* the arguments callers pass to calculate_time_range, and the clock
Durations == {0, 1, -1, 3, 5}

EndTimes ==
    {NowText,
     TimeText("1970-01-01T00:01:00", "Z"),
     TimeText("1970-01-01T00:01:00", ""),
     TimeText("1970-01-01T00:00:03.500000", "+00:00"),
     TimeText("yesterday", "")}

Clock == {Datetime(7, TRUE), Datetime(240, TRUE)}

\* the operation names callers pass to invoke_aws_api
OperationNames ==
    {EmptyName, describe_instances, DescribeInstances, describe_alarms, describe_x,
     terminate_instances, put_metric_alarm_name}

\* ---------------------------------------------------------------- state
Range(seq) == {seq[i] : i \in DOMAIN seq}

NoArgs == [none |-> TRUE]

Init ==
    /\ tool = "none"
    /\ args = NoArgs
    /\ outcome = [value |-> NoArgs, kind |-> "none"]
    /\ clients = << >>
    /\ calls = << >>
    /\ reached = {}
    /\ ninv = 0
    /\ earlier = NoArgs
    /\ name = EmptyName
    /\ verdict = "none"
    /\ pc = << >>
    /\ frame = << >>
    /\ stored = {}

\* a provider call as remembered for good: the tool that made it, the service
\* and the operation
Target(toolname, call) == <<toolname, call.service, call.operation>>

\* the invocation before, as the next one remembers it when it repeats it
Remembered(toolname, arguments) ==
    IF tool = toolname /\ args = arguments
    THEN [outcome |-> outcome, calls |-> calls]
    ELSE NoArgs

\* a mutant of the invocation: the answers of the provider are memoized on
\* the arguments, a repeated invocation gets the result of the one before
\* and calls nothing
Invoke_memoized(toolname, arguments, r) ==
    /\ ninv < MaxInvocations
    /\ tool' = toolname
    /\ args' = arguments
    /\ outcome' = IF tool = toolname /\ args = arguments /\ calls # << >> /\ r.calls # << >>
                  THEN outcome ELSE [value |-> r.value, kind |-> r.kind]
    /\ clients' = r.clients
    /\ calls' = IF tool = toolname /\ args = arguments /\ calls # << >> /\ r.calls # << >>
                THEN << >> ELSE r.calls
    /\ reached' = reached \cup {Target(toolname, r.calls[i]) : i \in DOMAIN r.calls}
    /\ ninv' = ninv + 1
    /\ earlier' = Remembered(toolname, arguments)
    /\ UNCHANGED <<name, verdict, pc, frame, stored>>

\* the agent runtime invokes one tool function with arguments of its choice;
\* the function is run afresh, it keeps nothing from one invocation to the next
Invoke(toolname, arguments, r) ==
    /\ ninv < MaxInvocations
    /\ tool' = toolname
    /\ args' = arguments
    /\ outcome' = [value |-> r.value, kind |-> r.kind]
    /\ clients' = r.clients
    /\ calls' = r.calls
    /\ reached' = reached \cup {Target(toolname, r.calls[i]) : i \in DOMAIN r.calls}
    /\ ninv' = ninv + 1
    /\ earlier' = Remembered(toolname, arguments)
    /\ UNCHANGED <<name, verdict, pc, frame, stored>>

InvokeAwsApi ==
    \E service \in Services, operation \in OperationNames,
       parameters \in ParameterTexts, env \in Environments :
        Invoke("invoke_aws_api",
               [operation |-> operation, service |-> service, parameters |-> parameters],
               invoke_aws_api(service, operation, parameters, env))

PutMetricAlarm ==
    \E a \in AlarmArguments, env \in Environments :
        Invoke("put_metric_alarm", a, put_metric_alarm(a, env))

ListAvailableServices ==
    \E env \in Environments :
        Invoke("list_available_services", NoArgs, list_available_services(env))

ListServiceOperations ==
    \E service \in Services, env \in Environments :
        Invoke("list_service_operations", [service |-> service],
               list_service_operations(service, env))

ListResources ==
    \E env \in Environments :
        Invoke("list_resources", NoArgs, list_resources(env))

ReadAccountDiscoveryResults ==
    \E env \in StorageEnvironments :
        Invoke("read_account_discovery_results", NoArgs,
               read_account_discovery_results(env))

CalculateTimeRange ==
    \E duration_minutes \in Durations, end_time \in EndTimes, now \in Clock :
        Invoke("calculate_time_range",
               [duration_minutes |-> duration_minutes, end_time |-> end_time],
               calculate_time_range(duration_minutes, end_time, now))

Next ==
    \/ InvokeAwsApi
    \/ PutMetricAlarm
    \/ ListAvailableServices
    \/ ListServiceOperations
    \/ ListResources
    \/ ReadAccountDiscoveryResults
    \/ CalculateTimeRange

Spec == Init /\ [][Next]_vars

\* ------------------------------------------------- classifier on its own
InitClassifier ==
    /\ tool = "none"
    /\ args = NoArgs
    /\ outcome = [value |-> NoArgs, kind |-> "none"]
    /\ clients = << >>
    /\ calls = << >>
    /\ reached = {}
    /\ ninv = 0
    /\ earlier = NoArgs
    /\ name \in ClassifierNames
    /\ verdict = "none"
    /\ pc = << >>
    /\ frame = << >>
    /\ stored = {}

\* is_read_operation is applied to the name
Classify ==
    /\ verdict = "none"
    /\ verdict' = IF is_read_operation(name) THEN "True" ELSE "False"
    /\ UNCHANGED <<tool, args, outcome, clients, calls, reached, ninv, earlier, name, pc, frame, stored>>

NextClassifier ==
    \/ Classify

SpecClassifier == InitClassifier /\ [][NextClassifier]_vars

\* ------------------------------------------- invoke_aws_api, concurrently
\* The runtime may run several invocations of invoke_aws_api at once. Each is
\* a call of the function with its own arguments and locals (frame), running
\* the statements of the function body one at a time; the statements of
\* different invocations interleave in any order.
Workers == 1..MaxWorkers

InFlightServices == {"ec2", "cloudwatch"}

InFlightOperations == {describe_instances}

InFlightTexts == {TextEmptyObject, TextMaxResults, TextNotJson}

InFlightOutcomes ==
    {Returned(RespPlain), Returned(RespTime),
     Raised("ClientError", <<"An error occurred (AccessDenied)">>)}

\* the frame of an invocation that just started
Frame(service, operation, parameters) ==
    [operation |-> operation, response |-> None, client |-> None,
     service |-> service, result |-> None, api_parameters |-> None, parameters |-> parameters]

InitConcurrent ==
    /\ tool = "none"
    /\ args = NoArgs
    /\ outcome = [value |-> NoArgs, kind |-> "none"]
    /\ clients = << >>
    /\ calls = << >>
    /\ reached = {}
    /\ ninv = 0
    /\ earlier = NoArgs
    /\ name = EmptyName
    /\ verdict = "none"
    /\ pc = [w \in Workers |-> "idle"]
    /\ frame = [w \in Workers |-> NoArgs]
    /\ stored = {}

\* invocation w goes on to another statement, with its locals as in f
Goto(w, statement, f) ==
    /\ pc' = [pc EXCEPT ![w] = statement]
    /\ frame' = [frame EXCEPT ![w] = f]
    /\ UNCHANGED <<tool, args, outcome, clients, calls, reached, ninv, earlier, name, verdict, stored>>

\* invocation w returns value
Return(w, f, value) == Goto(w, "done", [f EXCEPT !.result = value])

\* the runtime calls invoke_aws_api(service, operation, parameters)
Begin(w) ==
    /\ pc[w] = "idle"
    /\ \E service \in InFlightServices, operation \in InFlightOperations,
          parameters \in InFlightTexts :
           Goto(w, "parse", Frame(service, operation, parameters))

\* api_parameters = json.loads(parameters), None becoming {}
StepParse(w) ==
    /\ pc[w] = "parse"
    /\ LET f == frame[w]
           parsed == json_loads(f.parameters)
       IN IF ~parsed.ok
          THEN Return(w, f, Error(<<MsgInvalidJson, parsed.msg>>))
          ELSE Goto(w, "gate",
                    [f EXCEPT !.api_parameters =
                         IF parsed.val = JNull THEN EmptyObject ELSE parsed.val])

\* if not is_read_operation(operation): ...
StepGate(w) ==
    /\ pc[w] = "gate"
    /\ LET f == frame[w] IN
       IF ~is_read_operation(f.operation)
       THEN Return(w, f, Error(<<"Operation '">> \o f.operation \o <<MsgNotAllowed>>))
       ELSE Goto(w, "identifiers", f)

\* if not service: ... if not operation: ...
StepIdentifiers(w) ==
    /\ pc[w] = "identifiers"
    /\ LET f == frame[w] IN
       IF f.service = "" THEN Return(w, f, Error(<<MsgServiceMissing>>))
       ELSE IF f.operation = EmptyName THEN Return(w, f, Error(<<MsgOperationMissing>>))
       ELSE Goto(w, "client", f)

\* a mutant of the client statement: the client is a module-level singleton,
\* built by the first invocation that needs one
StepClient_singleton(w) ==
    /\ pc[w] = "client"
    /\ \E e \in {"ok", "raise"} :
           LET f == frame[w]
               built == {v \in Workers : pc[v] # "idle" /\ frame[v].client # None
                                         /\ frame[v].client.kind = "return"}
               c == IF built # {} THEN frame[CHOOSE v \in built : TRUE].client
                    ELSE boto3_client(f.service, [client |-> e, call |-> Returned(RespPlain)])
           IN IF c.kind = "raise"
              THEN Return(w, [f EXCEPT !.client = c], Error(c.value.msg))
              ELSE Goto(w, "resolve", [f EXCEPT !.client = c])

\* client = boto3.client(service)
StepClient(w) ==
    /\ pc[w] = "client"
    /\ \E e \in {"ok", "raise"} :
           LET f == frame[w]
               c == boto3_client(f.service, [client |-> e, call |-> Returned(RespPlain)])
           IN IF c.kind = "raise"
              THEN Return(w, [f EXCEPT !.client = c], Error(c.value.msg))
              ELSE Goto(w, "resolve", [f EXCEPT !.client = c])

\* method = getattr(client, operation, None); if not method: ...
StepResolve(w) ==
    /\ pc[w] = "resolve"
    /\ LET f == frame[w]
           method == getattr(f.client.value, f.operation)
       IN IF ~method.found
          THEN Return(w, f, Error(<<"Operation '">> \o f.operation \o
                                  <<MsgNotFound, f.service, "'">>))
          ELSE IF ~method.callable
          THEN Return(w, f, Error(<<"object is not callable">>))
          ELSE Goto(w, "call", f)

\* response = method(**api_parameters)
StepCall(w) ==
    /\ pc[w] = "call"
    /\ LET f == frame[w] IN
       IF f.api_parameters.t # "obj"
       THEN Return(w, f, Error(<<"argument after ** must be a mapping">>))
       ELSE \E o \in InFlightOutcomes :
                LET r == provider_call(f.api_parameters, [client |-> "ok", call |-> o]) IN
                IF r.kind = "raise"
                THEN Return(w, [f EXCEPT !.response = r], Error(r.value.msg))
                ELSE Goto(w, "serialize", [f EXCEPT !.response = r])

\* the serialization of the response and the return of the success dict
StepSerialize(w) ==
    /\ pc[w] = "serialize"
    /\ LET f == frame[w] IN
       Return(w, f, [operation |-> f.operation,
                     response |-> serialized_response(f.response.value),
                     service |-> f.service,
                     function |-> "invoke_aws_api"])

\* the runtime took the result; the worker is free for another invocation
Finish(w) ==
    /\ pc[w] = "done"
    /\ pc' = [pc EXCEPT ![w] = "idle"]
    /\ frame' = [frame EXCEPT ![w] = NoArgs]
    /\ UNCHANGED <<tool, args, outcome, clients, calls, reached, ninv, earlier, name, verdict, stored>>

NextConcurrent ==
    \E w \in Workers :
        \/ Begin(w)
        \/ StepParse(w)
        \/ StepGate(w)
        \/ StepIdentifiers(w)
        \/ StepClient(w)
        \/ StepResolve(w)
        \/ StepCall(w)
        \/ StepSerialize(w)
        \/ Finish(w)

SpecConcurrent == InitConcurrent /\ [][NextConcurrent]_vars

\* ------------------------------------------------- Python value access
\* value[key] for a string key
subscript(value, key) ==
    IF value.t = "obj"
    THEN IF \E i \in DOMAIN value.v : value.v[i].k = key
         THEN Returned(value.v[CHOOSE i \in DOMAIN value.v : value.v[i].k = key].v)
         ELSE Raised("KeyError", <<"'", key, "'">>)
    ELSE IF value.t = "str"
    THEN Raised("TypeError", <<"string indices must be integers">>)
    ELSE IF value.t = "arr"
    THEN Raised("TypeError", <<"list indices must be integers or slices, not str">>)
    ELSE Raised("TypeError", <<"object is not subscriptable">>)

\* value[0]
first_element(value) ==
    IF value.t = "arr"
    THEN IF Len(value.v) > 0 THEN Returned(value.v[1])
         ELSE Raised("IndexError", <<"list index out of range">>)
    ELSE IF value.t = "obj" THEN Raised("KeyError", <<"0">>)
    ELSE IF value.t = "str"
    THEN IF Len(value.v) > 0 THEN Returned(JStr(<<value.v[1]>>))
         ELSE Raised("IndexError", <<"string index out of range">>)
    ELSE Raised("TypeError", <<"object is not subscriptable">>)

\* value.get(key, default)
dict_get(value, key, default) ==
    IF value.t = "obj"
    THEN IF \E i \in DOMAIN value.v : value.v[i].k = key
         THEN subscript(value, key)
         ELSE Returned(default)
    ELSE Raised("AttributeError", <<"object has no attribute 'get'">>)

\* key in value
contains_key(value, key) ==
    IF value.t = "obj" THEN Returned(\E i \in DOMAIN value.v : value.v[i].k = key)
    ELSE IF value.t = "arr" THEN Returned(\E i \in DOMAIN value.v : value.v[i] = JStr(<<key>>))
    ELSE IF value.t = "str" THEN Returned(\E i \in DOMAIN value.v : value.v[i] = key)
    ELSE Raised("TypeError", <<"argument of this type is not iterable">>)

RECURSIVE path(_, _)
\* value[k1][k2]..., a key being a string or, written "[0]", the index 0
path(value, keys) ==
    IF keys = << >> THEN Returned(value)
    ELSE LET r == IF keys[1] = "[0]" THEN first_element(value)
                  ELSE subscript(value, keys[1])
         IN IF r.kind = "raise" THEN r ELSE path(r.value, Tail(keys))

\* value[k1][k2]....get(key, default)
path_get(value, keys, key, default) ==
    LET r == path(value, keys) IN
    IF r.kind = "raise" THEN r ELSE dict_get(r.value, key, default)

\* ----------------------------------------------------------- text pieces
\* A text the handler cuts up is a sequence of pieces: the tags "<html>" and
\* "</html>", a blank " ", a newline "\n", the two characters backslash-n
\* "\\n" that str() writes for a newline inside a string, and words.
Whitespace == {" ", "\n"}

RECURSIVE lstrip(_)
lstrip(text) ==
    IF text # << >> /\ text[1] \in Whitespace THEN lstrip(Tail(text)) ELSE text

RECURSIVE rstrip(_)
rstrip(text) ==
    IF text # << >> /\ text[Len(text)] \in Whitespace
    THEN rstrip(SubSeq(text, 1, Len(text) - 1))
    ELSE text

\* a mutant of strip: the text is taken as it is
strip_nothing(text) == text

\* str.strip()
strip(text) == rstrip(lstrip(text))

\* text.replace(piece, '')
remove(text, piece) == SelectSeq(text, LAMBDA x : x # piece)

\* the pieces before the first occurrence of piece (all of them if none)
before(text, piece) ==
    IF \E i \in DOMAIN text : text[i] = piece
    THEN SubSeq(text, 1, (CHOOSE i \in DOMAIN text :
                              text[i] = piece /\ \A j \in 1..(i - 1) : text[j] # piece) - 1)
    ELSE text

\* the pieces after the first occurrence of piece
after(text, piece) ==
    LET i == CHOOSE n \in DOMAIN text : text[n] = piece /\ \A j \in 1..(n - 1) : text[j] # piece
    IN SubSeq(text, i + 1, Len(text))

RECURSIVE render(_)
RECURSIVE render_elements(_, _)
RECURSIVE render_members(_, _)
\* str(value) of a decoded JSON value, as pieces; a newline inside a string
\* is written as backslash-n
render(value) ==
    IF value.t = "null" THEN <<"None">>
    ELSE IF value.t = "bool" THEN <<IF value.v THEN "True" ELSE "False">>
    ELSE IF value.t = "num" THEN <<value.v>>
    ELSE IF value.t = "str"
    THEN <<"'">> \o [i \in DOMAIN value.v |-> IF value.v[i] = "\n" THEN "\\n" ELSE value.v[i]]
               \o <<"'">>
    ELSE IF value.t = "arr" THEN <<"[">> \o render_elements(value.v, 1) \o <<"]">>
    ELSE <<"{">> \o render_members(value.v, 1) \o <<"}">>

render_elements(elements, i) ==
    IF i > Len(elements) THEN << >>
    ELSE render(elements[i]) \o (IF i < Len(elements) THEN <<", ">> ELSE << >>)
         \o render_elements(elements, i + 1)

render_members(items, i) ==
    IF i > Len(items) THEN << >>
    ELSE <<"'", items[i].k, "'", ": ">> \o render(items[i].v)
         \o (IF i < Len(items) THEN <<", ">> ELSE << >>)
         \o render_members(items, i + 1)

\* ------------------------------------------------- agent entrypoints
\* the prompt used when the payload has none
DefaultPrompt ==
    JStr(<<"No prompt found in input. Please provide alert information for investigation.">>)

\* the same, in the alarming agent
DefaultPromptAlarming == JStr(<<"No prompt found in input.">>)

MsgErrorProcessing == "Error processing request: "

MsgStored == "Response stored in s3 bucket"

\* response.message of an agent run that answered with a text
Message(text) ==
    JObj(<<Item("role", JStr(<<"assistant">>)),
           Item("content", JArr(<<JObj(<<Item("text", JStr(text))>>)>>))>>)

\* user_message[:200]
slice200(value) ==
    IF value.t \in {"str", "arr"} THEN Returned(value)
    ELSE IF value.t = "obj" THEN Raised("KeyError", <<"slice(None, 200, None)">>)
    ELSE Raised("TypeError", <<"object is not subscriptable">>)

\* the try block shared by the entrypoints up to the agent run: the prompt is
\* taken from the payload, logged, and given to the agent
entrypoint_run(payload, default, run) ==
    LET user_message == dict_get(payload, "prompt", default) IN
    IF user_message.kind = "raise" THEN Run("raise", user_message.value, << >>, << >>)
    ELSE IF slice200(user_message.value).kind = "raise"
    THEN Run("raise", slice200(user_message.value).value, << >>, << >>)
    ELSE LET call == Call("strands", "agent", user_message.value, run) IN
         IF run.kind = "raise" THEN Run("raise", run.value, << >>, <<call>>)
         ELSE Run("return", run.value, << >>, <<call>>)

\* a mutant of the entrypoints' handler: the exception goes on to the caller
entrypoint_caught_uncaught(r) == r

\* except Exception as e: return {"message": f"Error processing request: ..."}
entrypoint_caught(r) ==
    IF r.kind = "raise"
    THEN [r EXCEPT !.kind = "return",
                   !.value = JObj(<<Item("message",
                                         JStr(<<MsgErrorProcessing>> \o r.value.msg))>>)]
    ELSE r

\* return {key: response.message}
entrypoint_wrap(r, key) ==
    IF r.kind = "raise" THEN r ELSE [r EXCEPT !.value = JObj(<<Item(key, r.value)>>)]

\* invoke(payload) of the investigator agent
invoke_investigator(payload, run) ==
    entrypoint_caught(entrypoint_wrap(entrypoint_run(payload, DefaultPrompt, run), "result"))

\* invoke(payload) of the alarming agent
invoke_alarming(payload, run) ==
    entrypoint_caught(
        entrypoint_wrap(entrypoint_run(payload, DefaultPromptAlarming, run), "result"))

\* invoke(payload) of the reporting agent
invoke_reporting(payload, run) ==
    entrypoint_caught(entrypoint_wrap(entrypoint_run(payload, DefaultPrompt, run), "response"))

\* bytes: str.encode('utf-8') of a text
encode_utf8(text) == [body |-> text, utf8 |-> TRUE]

put_object == "put_object"

\* a mutant of the discovery entrypoint's storing: the object is written
\* under another key
discovery_store_other_key(r, env) ==
    IF r.kind = "raise" THEN r
    ELSE IF env.client = "raise"
    THEN Run("raise", Exception("NoRegionError", <<"You must specify a region.">>),
             << >>, r.calls)
    ELSE LET call == Call("s3", put_object,
                          JObj(<<Item("Bucket", JStr(DiscoveryBucket)),
                                 Item("Key", JStr("discovery-results.txt")),
                                 Item("Body", encode_utf8(render(r.value))),
                                 Item("ContentType", JStr("text/markdown"))>>),
                          env.call) IN
         IF env.call.kind = "raise" THEN Run("raise", env.call.value, <<"s3">>, r.calls \o <<call>>)
         ELSE Run("return", JObj(<<Item("message", JStr(<<MsgStored>>))>>),
                  <<"s3">>, r.calls \o <<call>>)

\* the storing of the response by the discovery entrypoint: the client, the
\* text str(response.message), put_object, and the message returned
discovery_store(r, env) ==
    IF r.kind = "raise" THEN r
    ELSE IF env.client = "raise"
    THEN Run("raise", Exception("NoRegionError", <<"You must specify a region.">>),
             << >>, r.calls)
    ELSE LET call == Call("s3", put_object,
                          JObj(<<Item("Bucket", JStr(DiscoveryBucket)),
                                 Item("Key", JStr(DiscoveryKey)),
                                 Item("Body", encode_utf8(render(r.value))),
                                 Item("ContentType", JStr("text/markdown"))>>),
                          env.call) IN
         IF env.call.kind = "raise" THEN Run("raise", env.call.value, <<"s3">>, r.calls \o <<call>>)
         ELSE Run("return", JObj(<<Item("message", JStr(<<MsgStored>>))>>),
                  <<"s3">>, r.calls \o <<call>>)

\* invoke(payload) of the discovery agent
invoke_discovery(payload, run, env) ==
    entrypoint_caught(discovery_store(entrypoint_run(payload, DefaultPrompt, run), env))

\* ------------------------------------------ invoke-investigator lambda
AgentRuntimeArn ==
    "arn:aws:bedrock-agentcore:us-east-1:129463259399:runtime/investigator-JB4TCCB1ao"

LogGroup == "noop/alarm-investigations"

EmailSource == "alarms@bbd-mserv.com"

EmailRecipients ==
    JArr(<<JStr("michael.rolle@bbd.co.za"), JStr("daniels@bbd.co.za"),
           JStr("wernerd@bbd.co.za")>>)

\* int(time.time()), as text
EpochSeconds == "1714564800"

\* the path to the metric of the alarm
MetricPath == <<"alarmData", "configuration", "metrics", "[0]", "metricStat", "metric">>

\* the lookups of lines 8 to 20 and 29, in the order of the code
extract_lookups(event) ==
    <<path(event, <<"alarmData", "alarmName">>),
      path_get(event, <<"alarmData", "configuration">>, "description", JStr("")),
      path(event, <<"alarmData", "state", "value">>),
      path(event, <<"alarmData", "previousState", "value">>),
      path(event, <<"alarmData", "state", "reason">>),
      path(event, <<"region">>),
      path(event, <<"accountId">>),
      path(event, MetricPath),
      path(event, MetricPath \o <<"name">>),
      path(event, MetricPath \o <<"namespace">>),
      path_get(event, MetricPath, "dimensions", EmptyObject),
      path(event, <<"time">>)>>

\* the first lookup that raised
extract_raised(got) ==
    got[CHOOSE i \in DOMAIN got :
            /\ got[i].kind = "raise"
            /\ \A j \in DOMAIN got : got[j].kind = "raise" => i <= j]

\* the local variables the lookups set
extract_locals(got) ==
    [alarm_name |-> got[1].value,
     metric_name |-> got[9].value,
     namespace |-> got[10].value,
     alarm_description |-> got[2].value,
     dimensions |-> got[11].value,
     new_state |-> got[3].value,
     old_state |-> got[4].value,
     reason |-> got[5].value,
     region |-> got[6].value,
     account_id |-> got[7].value,
     time |-> got[12].value]

\* the values lines 8 to 20 and 29 take out of the event; the first lookup
\* that fails raises
extract_from(got) ==
    IF \E i \in DOMAIN got : got[i].kind = "raise"
    THEN extract_raised(got)
    ELSE Returned(extract_locals(got))

extract(event) == extract_from(extract_lookups(event))

\* str(value) as an f-string puts it in: a string as it is
format(value) == IF value.t = "str" THEN value.v ELSE render(value)

\* the prompt: the fixed text with the extracted values put in
prompt_of(f) ==
    JArr(<<JStr("Investigate this alarm to find the root cause."),
           f.alarm_name, f.alarm_description, f.old_state, f.new_state, f.reason,
           f.time, f.region, f.account_id, f.namespace, f.metric_name, f.dimensions,
           JStr("Ensure that you ONLY output HTML in your response")>>)

\* a mutant of the selection: key 'response' is looked at before 'content'
agent_response_of_response_first(result) ==
    LET hasContent == contains_key(result, "content")
        hasResponse == contains_key(result, "response")
    IN IF hasResponse.kind = "raise" THEN hasResponse
       ELSE IF hasResponse.value THEN subscript(result, "response")
       ELSE IF hasContent.value
       THEN LET text == path(result, <<"content", "[0]", "text">>) IN
            IF text.kind = "raise" THEN text
            ELSE IF text.value.t # "str"
            THEN Raised("AttributeError", <<"object has no attribute 'strip'">>)
            ELSE Returned(JStr(strip(text.value.v)))
       ELSE Returned(JStr(render(result)))

\* if 'content' in result: ... elif 'response' in result: ... else: ...
agent_response_of(result) ==
    LET hasContent == contains_key(result, "content")
        hasResponse == contains_key(result, "response")
    IN IF hasContent.kind = "raise" THEN hasContent
       ELSE IF hasContent.value
       THEN LET text == path(result, <<"content", "[0]", "text">>) IN
            IF text.kind = "raise" THEN text
            ELSE IF text.value.t # "str"
            THEN Raised("AttributeError", <<"object has no attribute 'strip'">>)
            ELSE Returned(JStr(strip(text.value.v)))
       ELSE IF hasResponse.value THEN subscript(result, "response")
       ELSE Returned(JStr(render(result)))

\* the HTML of the email: what stands between the tags, or the response
\* wrapped in a heading and a paragraph, newlines removed
html_of(alarm_name, agent_response) ==
    LET open == contains_key(agent_response, "<html>")
        close == contains_key(agent_response, "</html>")
    IN IF open.kind = "raise" THEN open
       ELSE IF open.value /\ close.value
       THEN IF agent_response.t # "str"
            THEN Raised("AttributeError", <<"object has no attribute 'split'">>)
            ELSE Returned(strip(remove(remove(
                     before(before(after(agent_response.v, "<html>"), "<html>"), "</html>"),
                     "\n"), "\\n")))
       ELSE Returned(strip(remove(remove(
                <<"<h2>Alarm Investigation: ">> \o format(alarm_name) \o <<"</h2><p>">>
                \o format(agent_response) \o <<"</p>">>,
                "\n"), "\\n")))

\* a mutant of the delivery: the email is sent first, and a failed log write
\* is let pass
lambda_handler_deliver_email_first(f, agent_response, html, env, before_calls) ==
    LET log_stream_name == format(f.alarm_name) \o <<"-", EpochSeconds>>
        create == Call("logs", "create_log_stream",
                       JObj(<<Item("logGroupName", JStr(LogGroup)),
                              Item("logStreamName", JStr(log_stream_name))>>),
                       env.stream)
        log_message ==
            JObj(<<Item("timestamp", f.time),
                   Item("alarm_name", f.alarm_name),
                   Item("state_change",
                        JStr(format(f.old_state) \o <<" -> ">> \o format(f.new_state))),
                   Item("reason", f.reason),
                   Item("investigation", agent_response)>>)
        write == Call("logs", "put_log_events",
                      JObj(<<Item("logGroupName", JStr(LogGroup)),
                             Item("logStreamName", JStr(log_stream_name)),
                             Item("message", log_message)>>),
                      env.put)
        email == Call("ses", "send_email",
                      JObj(<<Item("Source", JStr(EmailSource)),
                             Item("ToAddresses", EmailRecipients),
                             Item("Subject",
                                  JStr(<<"Alarm Investigation: ">> \o format(f.alarm_name))),
                             Item("Html", JStr(html))>>),
                      env.email)
        all_clients == <<"bedrock-agentcore", "ses", "logs">>
    IN IF env.email.kind = "raise"
       THEN Run("raise", env.email.value, all_clients, before_calls \o <<email>>)
       ELSE IF env.stream.kind = "raise"
          /\ env.stream.value.type # "ResourceAlreadyExistsException"
       THEN Run("raise", env.stream.value, all_clients, before_calls \o <<email, create>>)
       ELSE Run("return", [body |-> "success", statusCode |-> 200], all_clients,
                before_calls \o <<email, create, write>>)

\* the log stream, the log event and the email (lines 80 to 126)
lambda_handler_deliver(f, agent_response, html, env, before_calls) ==
    LET log_stream_name == format(f.alarm_name) \o <<"-", EpochSeconds>>
        create == Call("logs", "create_log_stream",
                       JObj(<<Item("logGroupName", JStr(LogGroup)),
                              Item("logStreamName", JStr(log_stream_name))>>),
                       env.stream)
        log_message ==
            JObj(<<Item("timestamp", f.time),
                   Item("alarm_name", f.alarm_name),
                   Item("state_change",
                        JStr(format(f.old_state) \o <<" -> ">> \o format(f.new_state))),
                   Item("reason", f.reason),
                   Item("investigation", agent_response)>>)
        write == Call("logs", "put_log_events",
                      JObj(<<Item("logGroupName", JStr(LogGroup)),
                             Item("logStreamName", JStr(log_stream_name)),
                             Item("message", log_message)>>),
                      env.put)
        email == Call("ses", "send_email",
                      JObj(<<Item("Source", JStr(EmailSource)),
                             Item("ToAddresses", EmailRecipients),
                             Item("Subject",
                                  JStr(<<"Alarm Investigation: ">> \o format(f.alarm_name))),
                             Item("Html", JStr(html))>>),
                      env.email)
        all_clients == <<"bedrock-agentcore", "ses", "logs">>
    IN IF env.stream.kind = "raise"
          /\ env.stream.value.type # "ResourceAlreadyExistsException"
       THEN Run("raise", env.stream.value, all_clients, before_calls \o <<create>>)
       ELSE IF env.put.kind = "raise"
       THEN Run("raise", env.put.value, all_clients, before_calls \o <<create, write>>)
       ELSE IF env.email.kind = "raise"
       THEN Run("raise", env.email.value, all_clients,
                before_calls \o <<create, write, email>>)
       ELSE Run("return", [body |-> "success", statusCode |-> 200], all_clients,
                before_calls \o <<create, write, email>>)

\* the try block: the agent runtime is invoked, its response read, parsed
\* and cut, and the result delivered
lambda_handler_try(f, env) ==
    LET all_clients == <<"bedrock-agentcore", "ses", "logs">>
        payload == JObj(<<Item("prompt", prompt_of(f))>>)
        invoked == Call("bedrock-agentcore", "invoke_agent_runtime",
                        JObj(<<Item("agentRuntimeArn", JStr(AgentRuntimeArn)),
                               Item("qualifier", JStr("DEFAULT")),
                               Item("payload", JStr(json_dumps(payload)))>>),
                        env.agent)
    IN IF env.agent.kind = "raise"
       THEN Run("raise", env.agent.value, all_clients, <<invoked>>)
       ELSE IF ~env.agent.value.utf8
       THEN Run("raise",
                Exception("UnicodeDecodeError", <<"'utf-8' codec can't decode byte">>),
                all_clients, <<invoked>>)
       ELSE LET parsed == json_loads(env.agent.value.body) IN
            IF ~parsed.ok
            THEN Run("raise", Exception("JSONDecodeError", <<parsed.msg>>),
                     all_clients, <<invoked>>)
            ELSE LET agent_response == agent_response_of(parsed.val) IN
                 IF agent_response.kind = "raise"
                 THEN Run("raise", agent_response.value, all_clients, <<invoked>>)
                 ELSE LET html == html_of(f.alarm_name, agent_response.value) IN
                      IF html.kind = "raise"
                      THEN Run("raise", html.value, all_clients, <<invoked>>)
                      ELSE lambda_handler_deliver(f, agent_response.value, html.value,
                                                  env, <<invoked>>)

\* a mutant of the handler: the except clause is missing
lambda_handler_caught_uncaught(r) == r

\* except Exception as e: return {'statusCode': 500, 'body': json.dumps(...)}
lambda_handler_caught(r) ==
    IF r.kind = "raise"
    THEN [r EXCEPT !.kind = "return",
                   !.value = [body |-> json_dumps(JObj(<<Item("error", JStr(r.value.msg))>>)),
                              statusCode |-> 500]]
    ELSE r

\* lambda_handler(event, context): the values are taken out of the event and
\* the three clients built before the try block is entered
lambda_handler(event, env) ==
    LET f == extract(event) IN
    IF f.kind = "raise" THEN Run("raise", f.value, << >>, << >>)
    ELSE IF env.client = "raise"
    THEN Run("raise",
             Exception("UnknownServiceError", <<"Unknown service: 'bedrock-agentcore'">>),
             << >>, << >>)
    ELSE lambda_handler_caught(lambda_handler_try(f.value, env))

\* what callers pass to the entrypoints, and what an agent run does
Payloads ==
    {JObj(<<Item("prompt", JStr(<<"why is the alarm firing?">>))>>),
     EmptyObject,
     JObj(<<Item("prompt", JNum("5"))>>),
     JNull,
     JArr(<<JStr(<<"prompt">>)>>)}

AgentRuns ==
    {Returned(Message(<<"<html>", "<p>", "disk full", "</p>", "</html>", "\n">>)),
     Returned(Message(<<"no findings">>)),
     Raised("ThrottlingException", <<"Too many requests">>)}

\* the inbound events: the direct alarm event, the same without the optional
\* fields, one without 'time', one with no metric, and the envelope of the
\* notification service around the alarm message
MetricOf(items) ==
    JArr(<<JObj(<<Item("metricStat", JObj(<<Item("metric", JObj(items))>>))>>)>>)

AlarmDataOf(configuration) ==
    JObj(<<Item("alarmName", JStr(<<"cpu-high">>)),
           Item("state", JObj(<<Item("value", JStr(<<"ALARM">>)),
                                Item("reason", JStr(<<"Threshold Crossed">>))>>)),
           Item("previousState", JObj(<<Item("value", JStr(<<"OK">>))>>)),
           Item("configuration", JObj(configuration))>>)

EventOf(alarmData, rest) ==
    JObj(<<Item("alarmData", alarmData), Item("region", JStr(<<"us-east-1">>)),
           Item("accountId", JStr(<<"129463259399">>))>> \o rest)

EventDirect ==
    EventOf(AlarmDataOf(<<Item("description", JStr(<<"CPU over 80">>)),
                          Item("metrics",
                               MetricOf(<<Item("name", JStr(<<"CPUUtilization">>)),
                                          Item("namespace", JStr(<<"AWS/EC2">>)),
                                          Item("dimensions",
                                               JObj(<<Item("InstanceId",
                                                           JStr(<<"i-0abc">>))>>))>>))>>),
            <<Item("time", JStr(<<"2024-05-01T12:00:00Z">>))>>)

EventBare ==
    EventOf(AlarmDataOf(<<Item("metrics",
                               MetricOf(<<Item("name", JStr(<<"CPUUtilization">>)),
                                          Item("namespace", JStr(<<"AWS/EC2">>))>>))>>),
            <<Item("time", JStr(<<"2024-05-01T12:00:00Z">>))>>)

EventNoTime ==
    EventOf(AlarmDataOf(<<Item("metrics",
                               MetricOf(<<Item("name", JStr(<<"CPUUtilization">>)),
                                          Item("namespace", JStr(<<"AWS/EC2">>))>>))>>),
            << >>)

EventNoMetric ==
    EventOf(AlarmDataOf(<<Item("metrics", JArr(<< >>))>>),
            <<Item("time", JStr(<<"2024-05-01T12:00:00Z">>))>>)

EventEnvelope ==
    JObj(<<Item("Records",
                JArr(<<JObj(<<Item("EventSource", JStr(<<"aws:sns">>)),
                              Item("Sns", JObj(<<Item("Message",
                                                      JStr(<<"{\"AlarmName\": ...}">>))>>))>>)>>))>>)

Events == {EventDirect, EventBare, EventNoTime, EventNoMetric, EventEnvelope}

\* what the agent runtime may answer with, as decoded JSON
ResultContent ==
    JObj(<<Item("content",
                JArr(<<JObj(<<Item("text",
                                   JStr(<<" ", "<html>", "<p>", "\n", "root cause", "</p>",
                                          "</html>", "\n">>))>>)>>))>>)

ResultContentEmpty == JObj(<<Item("content", JArr(<< >>))>>)

ResultBoth ==
    JObj(<<Item("response", JStr(<<"from response">>)),
           Item("content", JArr(<<JObj(<<Item("text", JStr(<<"from content", " ">>))>>)>>))>>)

ResultResponse == JObj(<<Item("response", JStr(<<"plain answer">>))>>)

ResultResponseNumber == JObj(<<Item("response", JNum("5"))>>)

\* what the investigator agent's entrypoint returns
InvestigatorResults ==
    {invoke_investigator(payload, run).value : payload \in Payloads, run \in AgentRuns}

AgentResults ==
    {ResultContent, ResultContentEmpty, ResultBoth, ResultResponse, ResultResponseNumber,
     JNum("5"), JArr(<< >>)} \cup InvestigatorResults

\* invoke_agent_runtime: it raises, or returns the chunks of a body
AgentOutcomes ==
    {Raised("ReadTimeoutError", <<"Read timeout on endpoint URL">>),
     Returned([body |-> TextNotJson, utf8 |-> TRUE]),
     Returned([body |-> << >>, utf8 |-> FALSE])}
    \cup {Returned([body |-> json_dumps(result), utf8 |-> TRUE]) : result \in AgentResults}

StreamOutcomes ==
    {Returned(EmptyObject),
     Raised("ResourceAlreadyExistsException", <<"The specified log stream already exists">>),
     Raised("ResourceNotFoundException", <<"The specified log group does not exist.">>)}

PutOutcomes ==
    {Returned(EmptyObject), Raised("ThrottlingException", <<"Rate exceeded">>)}

EmailOutcomes ==
    {Returned(EmptyObject), Raised("MessageRejected", <<"Email address is not verified.">>)}

\* the provider's behaviour during one invocation; when the clients cannot be
\* built, nothing else of it is ever consulted
LambdaEnvironments ==
    [client : {"ok"}, stream : StreamOutcomes, put : PutOutcomes,
     email : EmailOutcomes, agent : AgentOutcomes]
    \cup [client : {"raise"}, stream : {Returned(EmptyObject)},
          put : {Returned(EmptyObject)}, email : {Returned(EmptyObject)},
          agent : {Raised("ReadTimeoutError", <<"Read timeout on endpoint URL">>)}]

\* how many events the Lambda service delivers in one behaviour
MaxEvents == 1

InitLambda ==
    /\ tool = "none"
    /\ args = NoArgs
    /\ outcome = [value |-> NoArgs, kind |-> "none"]
    /\ clients = << >>
    /\ calls = << >>
    /\ reached = {}
    /\ ninv = 0
    /\ earlier = NoArgs
    /\ name = EmptyName
    /\ verdict = "none"
    /\ pc = << >>
    /\ frame = << >>
    /\ stored = {}

\* the Lambda service calls the handler with an event
LambdaHandler ==
    /\ ninv < MaxEvents
    /\ \E event \in Events, env \in LambdaEnvironments :
           LET r == lambda_handler(event, env) IN
           /\ tool' = "lambda_handler"
           /\ args' = event
           /\ outcome' = [value |-> r.value, kind |-> r.kind]
           /\ clients' = r.clients
           /\ calls' = r.calls
    /\ ninv' = ninv + 1
    /\ UNCHANGED <<reached, earlier, name, verdict, pc, frame, stored>>

NextLambda ==
    \/ LambdaHandler

SpecLambda == InitLambda /\ [][NextLambda]_vars

\* -------------------------------------------- entrypoints and the storage
\* get_object: the object under a key of a bucket, or no such key
s3_get(store, bucket, key) ==
    IF \E o \in store : o.bucket = bucket /\ o.key = key
    THEN Returned((CHOOSE o \in store : o.bucket = bucket /\ o.key = key).object)
    ELSE Raised("NoSuchKey", <<"The specified key does not exist.">>)

\* put_object: the object replaces the one under the key
s3_put(store, bucket, key, object) ==
    {o \in store : ~(o.bucket = bucket /\ o.key = key)}
    \cup {[key |-> key, bucket |-> bucket, object |-> object]}

\* the provider refusing a request for reasons of its own
S3Fault == Raised("SlowDown", <<"Please reduce your request rate.">>)

\* the storage after the put_object calls of an invocation that succeeded
RECURSIVE written(_, _)
written(store, madeCalls) ==
    IF madeCalls = << >> THEN store
    ELSE LET call == Head(madeCalls) IN
         written(IF call.operation = put_object /\ call.result.kind = "return"
                 THEN s3_put(store, subscript(call.kwargs, "Bucket").value.v,
                             subscript(call.kwargs, "Key").value.v,
                             subscript(call.kwargs, "Body").value)
                 ELSE store,
                 Tail(madeCalls))

\* every get_object of an invocation found what the storage holds, or the
\* provider refused it
found(store, madeCalls) ==
    \A i \in DOMAIN madeCalls :
        madeCalls[i].result \in {s3_get(store, subscript(madeCalls[i].kwargs, "Bucket").value.v,
                                        subscript(madeCalls[i].kwargs, "Key").value.v),
                                 S3Fault}

\* objects other writers left in the bucket: a text, and bytes that are no
\* UTF-8
ForeignObjects ==
    {[body |-> <<"# Discovery">>, utf8 |-> TRUE], [body |-> <<"\\xff\\xfe">>, utf8 |-> FALSE]}

WriteEnvironments == [client : {"ok", "raise"}, call : {Returned(EmptyObject), S3Fault}]

ReadEnvironments ==
    [client : {"ok", "raise"},
     call : {Returned(object) : object \in ForeignObjects}
            \cup {Returned(encode_utf8(render(run.value))) :
                      run \in {a \in AgentRuns : a.kind = "return"}}
            \cup {Raised("NoSuchKey", <<"The specified key does not exist.">>), S3Fault}]

\* how many entrypoint and tool invocations one behaviour holds
MaxRuns == 2

InitAgents ==
    /\ tool = "none"
    /\ args = NoArgs
    /\ outcome = [value |-> NoArgs, kind |-> "none"]
    /\ clients = << >>
    /\ calls = << >>
    /\ reached = {}
    /\ ninv = 0
    /\ earlier = NoArgs
    /\ name = EmptyName
    /\ verdict = "none"
    /\ pc = << >>
    /\ frame = << >>
    /\ stored \in {{}} \cup {{[key |-> DiscoveryKey, bucket |-> DiscoveryBucket,
                                 object |-> object]} : object \in ForeignObjects}

\* one invocation: what it was, what it did, and what the storage holds after it
Enter(t, a, r, store) ==
    /\ ninv < MaxRuns
    /\ tool' = t
    /\ args' = a
    /\ outcome' = [value |-> r.value, kind |-> r.kind]
    /\ clients' = r.clients
    /\ calls' = r.calls
    /\ ninv' = ninv + 1
    /\ stored' = store
    /\ UNCHANGED <<reached, earlier, name, verdict, pc, frame>>

InvokeInvestigator ==
    \E payload \in Payloads, run \in AgentRuns :
        Enter("invoke_investigator", payload, invoke_investigator(payload, run), stored)

InvokeAlarming ==
    \E payload \in Payloads, run \in AgentRuns :
        Enter("invoke_alarming", payload, invoke_alarming(payload, run), stored)

InvokeReporting ==
    \E payload \in Payloads, run \in AgentRuns :
        Enter("invoke_reporting", payload, invoke_reporting(payload, run), stored)

InvokeDiscovery ==
    \E payload \in Payloads, run \in AgentRuns, env \in WriteEnvironments :
        LET r == invoke_discovery(payload, run, env) IN
        Enter("invoke_discovery", payload, r, written(stored, r.calls))

\* the reporting agent's tool, reading what the storage holds
ReadStoredDiscoveryResults ==
    \E env \in ReadEnvironments :
        LET r == read_account_discovery_results(env) IN
        /\ found(stored, r.calls)
        /\ Enter("read_account_discovery_results", NoArgs, r, stored)

NextAgents ==
    \/ InvokeInvestigator
    \/ InvokeAlarming
    \/ InvokeReporting
    \/ InvokeDiscovery
    \/ ReadStoredDiscoveryResults

SpecAgents == InitAgents /\ [][NextAgents]_vars

\* ------------------------------------------- the copies in the other agents
\* Each agent file carries its own is_read_operation and invoke_aws_api.  The
\* definitions above are those of the investigator; these are the others',
\* each from its own file.  The json and boto3 libraries are the same for all.

\* a mutant of the alarming agent's classifier: the name is not lowered
is_read_operation_alarming_cased(operation) ==
    \E i \in DOMAIN read_prefixes : startswith(operation, read_prefixes[i])

\* read_prefixes in the alarming agent
read_prefixes_alarming == <<
    <<"d","e","s","c","r","i","b","e">>,
    <<"l","i","s","t">>,
    <<"g","e","t">>,
    <<"f","e","t","c","h">>,
    <<"r","e","a","d">>,
    <<"q","u","e","r","y">>,
    <<"s","e","a","r","c","h">>,
    <<"l","o","o","k","u","p">>,
    <<"f","i","n","d">>,
    <<"c","h","e","c","k">>,
    <<"v","a","l","i","d","a","t","e">>,
    <<"i","n","s","p","e","c","t">>,
    <<"s","c","a","n">>,
    <<"h","e","a","d">>,
    <<"e","x","i","s","t","s">>,
    <<"c","o","u","n","t">>,
    <<"e","s","t","i","m","a","t","e">>,
    <<"p","r","e","v","i","e","w">>,
    <<"s","h","o","w">>,
    <<"f","i","l","t","e","r">>
>>

\* is_read_operation in the alarming agent
is_read_operation_alarming(operation) ==
    \E i \in DOMAIN read_prefixes_alarming : startswith(lower(operation), read_prefixes_alarming[i])

\* method(**api_parameters) and the result, in the alarming agent
invoke_aws_api_call_alarming(service, operation, api_parameters, env) ==
    IF api_parameters.t # "obj"
    THEN Run("raise", Exception("TypeError", <<"argument after ** must be a mapping">>),
             <<service>>, << >>)
    ELSE LET r == provider_call(api_parameters, env)
             call == Call(service, operation, api_parameters, r)
         IN IF r.kind = "raise"
            THEN Run("raise", r.value, <<service>>, <<call>>)
            ELSE Run("return",
                     [operation |-> operation, response |-> serialized_response(r.value),
                      service |-> service,
                      function |-> "invoke_aws_api"],
                     <<service>>, <<call>>)

\* the client and the method, in the alarming agent
invoke_aws_api_resolve_alarming(service, operation, api_parameters, env) ==
    LET client == boto3_client(service, env) IN
    IF client.kind = "raise" THEN Run("raise", client.value, << >>, << >>)
    ELSE LET method == getattr(service, operation) IN
         IF ~method.found
         THEN Run("return",
                  Error(<<"Operation '">> \o operation \o <<MsgNotFound, service, "'">>),
                  <<service>>, << >>)
         ELSE IF ~method.callable
         THEN Run("raise", Exception("TypeError", <<"object is not callable">>),
                  <<service>>, << >>)
         ELSE invoke_aws_api_call_alarming(service, operation, api_parameters, env)

\* the checks of service and operation, in the alarming agent
invoke_aws_api_identifiers_alarming(service, operation, api_parameters, env) ==
    IF service = "" THEN Run("return", Error(<<MsgServiceMissing>>), << >>, << >>)
    ELSE IF operation = EmptyName
    THEN Run("return", Error(<<MsgOperationMissing>>), << >>, << >>)
    ELSE invoke_aws_api_resolve_alarming(service, operation, api_parameters, env)

\* the read-only gate, in the alarming agent
invoke_aws_api_gate_alarming(service, operation, api_parameters, env) ==
    IF ~is_read_operation_alarming(operation)
    THEN Run("return", Error(<<"Operation '">> \o operation \o <<MsgNotAllowed>>),
             << >>, << >>)
    ELSE invoke_aws_api_identifiers_alarming(service, operation, api_parameters, env)

\* json.loads(parameters), in the alarming agent
invoke_aws_api_parse_alarming(service, operation, parameters, env) ==
    LET parsed == json_loads(parameters) IN
    IF ~parsed.ok
    THEN Run("return", Error(<<MsgInvalidJson, parsed.msg>>), << >>, << >>)
    ELSE invoke_aws_api_gate_alarming(service, operation,
             IF parsed.val = JNull THEN EmptyObject ELSE parsed.val, env)

\* the tool invoke_aws_api of the alarming agent
invoke_aws_api_alarming(service, operation, parameters, env) ==
    CatchAll(invoke_aws_api_parse_alarming(service, operation, parameters, env))

\* read_prefixes in the discovery agent
read_prefixes_discovery == <<
    <<"d","e","s","c","r","i","b","e">>,
    <<"l","i","s","t">>,
    <<"g","e","t">>,
    <<"f","e","t","c","h">>,
    <<"r","e","a","d">>,
    <<"q","u","e","r","y">>,
    <<"s","e","a","r","c","h">>,
    <<"l","o","o","k","u","p">>,
    <<"f","i","n","d">>,
    <<"c","h","e","c","k">>,
    <<"v","a","l","i","d","a","t","e">>,
    <<"i","n","s","p","e","c","t">>,
    <<"s","c","a","n">>,
    <<"h","e","a","d">>,
    <<"e","x","i","s","t","s">>,
    <<"c","o","u","n","t">>,
    <<"e","s","t","i","m","a","t","e">>,
    <<"p","r","e","v","i","e","w">>,
    <<"s","h","o","w">>,
    <<"f","i","l","t","e","r">>
>>

\* is_read_operation in the discovery agent
is_read_operation_discovery(operation) ==
    \E i \in DOMAIN read_prefixes_discovery : startswith(lower(operation), read_prefixes_discovery[i])

\* method(**api_parameters) and the result, in the discovery agent
invoke_aws_api_call_discovery(service, operation, api_parameters, env) ==
    IF api_parameters.t # "obj"
    THEN Run("raise", Exception("TypeError", <<"argument after ** must be a mapping">>),
             <<service>>, << >>)
    ELSE LET r == provider_call(api_parameters, env)
             call == Call(service, operation, api_parameters, r)
         IN IF r.kind = "raise"
            THEN Run("raise", r.value, <<service>>, <<call>>)
            ELSE Run("return",
                     [operation |-> operation, response |-> serialized_response(r.value),
                      service |-> service,
                      function |-> "invoke_aws_api"],
                     <<service>>, <<call>>)

\* the client and the method, in the discovery agent
invoke_aws_api_resolve_discovery(service, operation, api_parameters, env) ==
    LET client == boto3_client(service, env) IN
    IF client.kind = "raise" THEN Run("raise", client.value, << >>, << >>)
    ELSE LET method == getattr(service, operation) IN
         IF ~method.found
         THEN Run("return",
                  Error(<<"Operation '">> \o operation \o <<MsgNotFound, service, "'">>),
                  <<service>>, << >>)
         ELSE IF ~method.callable
         THEN Run("raise", Exception("TypeError", <<"object is not callable">>),
                  <<service>>, << >>)
         ELSE invoke_aws_api_call_discovery(service, operation, api_parameters, env)

\* the checks of service and operation, in the discovery agent
invoke_aws_api_identifiers_discovery(service, operation, api_parameters, env) ==
    IF service = "" THEN Run("return", Error(<<MsgServiceMissing>>), << >>, << >>)
    ELSE IF operation = EmptyName
    THEN Run("return", Error(<<MsgOperationMissing>>), << >>, << >>)
    ELSE invoke_aws_api_resolve_discovery(service, operation, api_parameters, env)

\* the read-only gate, in the discovery agent
invoke_aws_api_gate_discovery(service, operation, api_parameters, env) ==
    IF ~is_read_operation_discovery(operation)
    THEN Run("return", Error(<<"Operation '">> \o operation \o <<MsgNotAllowed>>),
             << >>, << >>)
    ELSE invoke_aws_api_identifiers_discovery(service, operation, api_parameters, env)

\* json.loads(parameters), in the discovery agent
invoke_aws_api_parse_discovery(service, operation, parameters, env) ==
    LET parsed == json_loads(parameters) IN
    IF ~parsed.ok
    THEN Run("return", Error(<<MsgInvalidJson, parsed.msg>>), << >>, << >>)
    ELSE invoke_aws_api_gate_discovery(service, operation,
             IF parsed.val = JNull THEN EmptyObject ELSE parsed.val, env)

\* the tool invoke_aws_api of the discovery agent
invoke_aws_api_discovery(service, operation, parameters, env) ==
    CatchAll(invoke_aws_api_parse_discovery(service, operation, parameters, env))

\* read_prefixes in the reporting agent
read_prefixes_reporting == <<
    <<"d","e","s","c","r","i","b","e">>,
    <<"l","i","s","t">>,
    <<"g","e","t">>,
    <<"f","e","t","c","h">>,
    <<"r","e","a","d">>,
    <<"q","u","e","r","y">>,
    <<"s","e","a","r","c","h">>,
    <<"l","o","o","k","u","p">>,
    <<"f","i","n","d">>,
    <<"c","h","e","c","k">>,
    <<"v","a","l","i","d","a","t","e">>,
    <<"i","n","s","p","e","c","t">>,
    <<"s","c","a","n">>,
    <<"h","e","a","d">>,
    <<"e","x","i","s","t","s">>,
    <<"c","o","u","n","t">>,
    <<"e","s","t","i","m","a","t","e">>,
    <<"p","r","e","v","i","e","w">>,
    <<"s","h","o","w">>,
    <<"f","i","l","t","e","r">>
>>

\* is_read_operation in the reporting agent
is_read_operation_reporting(operation) ==
    \E i \in DOMAIN read_prefixes_reporting : startswith(lower(operation), read_prefixes_reporting[i])

\* method(**api_parameters) and the result, in the reporting agent
invoke_aws_api_call_reporting(service, operation, api_parameters, env) ==
    IF api_parameters.t # "obj"
    THEN Run("raise", Exception("TypeError", <<"argument after ** must be a mapping">>),
             <<service>>, << >>)
    ELSE LET r == provider_call(api_parameters, env)
             call == Call(service, operation, api_parameters, r)
         IN IF r.kind = "raise"
            THEN Run("raise", r.value, <<service>>, <<call>>)
            ELSE Run("return",
                     [operation |-> operation, response |-> serialized_response(r.value),
                      service |-> service,
                      function |-> "invoke_aws_api"],
                     <<service>>, <<call>>)

\* the client and the method, in the reporting agent
invoke_aws_api_resolve_reporting(service, operation, api_parameters, env) ==
    LET client == boto3_client(service, env) IN
    IF client.kind = "raise" THEN Run("raise", client.value, << >>, << >>)
    ELSE LET method == getattr(service, operation) IN
         IF ~method.found
         THEN Run("return",
                  Error(<<"Operation '">> \o operation \o <<MsgNotFound, service, "'">>),
                  <<service>>, << >>)
         ELSE IF ~method.callable
         THEN Run("raise", Exception("TypeError", <<"object is not callable">>),
                  <<service>>, << >>)
         ELSE invoke_aws_api_call_reporting(service, operation, api_parameters, env)

\* the checks of service and operation, in the reporting agent
invoke_aws_api_identifiers_reporting(service, operation, api_parameters, env) ==
    IF service = "" THEN Run("return", Error(<<MsgServiceMissing>>), << >>, << >>)
    ELSE IF operation = EmptyName
    THEN Run("return", Error(<<MsgOperationMissing>>), << >>, << >>)
    ELSE invoke_aws_api_resolve_reporting(service, operation, api_parameters, env)

\* the read-only gate, in the reporting agent
invoke_aws_api_gate_reporting(service, operation, api_parameters, env) ==
    IF ~is_read_operation_reporting(operation)
    THEN Run("return", Error(<<"Operation '">> \o operation \o <<MsgNotAllowed>>),
             << >>, << >>)
    ELSE invoke_aws_api_identifiers_reporting(service, operation, api_parameters, env)

\* json.loads(parameters), in the reporting agent
invoke_aws_api_parse_reporting(service, operation, parameters, env) ==
    LET parsed == json_loads(parameters) IN
    IF ~parsed.ok
    THEN Run("return", Error(<<MsgInvalidJson, parsed.msg>>), << >>, << >>)
    ELSE invoke_aws_api_gate_reporting(service, operation,
             IF parsed.val = JNull THEN EmptyObject ELSE parsed.val, env)

\* the tool invoke_aws_api of the reporting agent
invoke_aws_api_reporting(service, operation, parameters, env) ==
    CatchAll(invoke_aws_api_parse_reporting(service, operation, parameters, env))

Agents == {"investigator", "alarming", "discovery", "reporting"}

\* is_read_operation as the named agent's file defines it
is_read_operation_in(agent, operation) ==
    CASE agent = "investigator" -> is_read_operation(operation)
      [] agent = "alarming" -> is_read_operation_alarming(operation)
      [] agent = "discovery" -> is_read_operation_discovery(operation)
      [] agent = "reporting" -> is_read_operation_reporting(operation)

\* invoke_aws_api as the named agent's file defines it
invoke_aws_api_in(agent, service, operation, parameters, env) ==
    CASE agent = "investigator" -> invoke_aws_api(service, operation, parameters, env)
      [] agent = "alarming" -> invoke_aws_api_alarming(service, operation, parameters, env)
      [] agent = "discovery" -> invoke_aws_api_discovery(service, operation, parameters, env)
      [] agent = "reporting" -> invoke_aws_api_reporting(service, operation, parameters, env)

\* the inputs given to each agent's copy
CopyServices == {"", "ec2"}

CopyOperations == {describe_instances, DescribeInstances, terminate_instances}

CopyTexts == {TextEmptyObject, TextNotJson}

\* the provider's behaviour: an answer with a timestamp, a refusal, and no
\* client at all
CopyEnvironments ==
    {e \in Environments :
        \/ e.client = "ok" /\ e.call = Returned(RespTime)
        \/ e.client = "ok" /\ e.call.kind = "raise" /\ e.call.value.type = "ClientError"
        \/ e.client = "raise" /\ e.call = Returned(RespPlain)}

\* how many invocations of the copies one behaviour holds
MaxCopyRuns == 1

InitCopies ==
    /\ tool = "none"
    /\ args = NoArgs
    /\ outcome = [value |-> NoArgs, kind |-> "none"]
    /\ clients = << >>
    /\ calls = << >>
    /\ reached = {}
    /\ ninv = 0
    /\ earlier = NoArgs
    /\ name = EmptyName
    /\ verdict = "none"
    /\ pc = << >>
    /\ frame = << >>
    /\ stored = {}

\* an agent's classifier run on an operation name
ClassifyIn ==
    /\ ninv < MaxCopyRuns
    /\ \E agent \in Agents, operation \in OperationNames :
           /\ tool' = "is_read_operation"
           /\ args' = [operation |-> operation, agent |-> agent]
           /\ outcome' = [value |-> is_read_operation_in(agent, operation), kind |-> "return"]
    /\ clients' = << >>
    /\ calls' = << >>
    /\ ninv' = ninv + 1
    /\ UNCHANGED <<reached, earlier, name, verdict, pc, frame, stored>>

\* an agent's invoke_aws_api run on an input, with the provider behaving as env
InvokeIn ==
    /\ ninv < MaxCopyRuns
    /\ \E agent \in Agents, service \in CopyServices, operation \in CopyOperations,
          parameters \in CopyTexts, env \in CopyEnvironments :
           LET r == invoke_aws_api_in(agent, service, operation, parameters, env) IN
           /\ tool' = "invoke_aws_api"
           /\ args' = [operation |-> operation, service |-> service, env |-> env,
                       parameters |-> parameters, agent |-> agent]
           /\ outcome' = [value |-> r.value, kind |-> r.kind]
           /\ clients' = r.clients
           /\ calls' = r.calls
    /\ ninv' = ninv + 1
    /\ UNCHANGED <<reached, earlier, name, verdict, pc, frame, stored>>

NextCopies ==
    \/ ClassifyIn
    \/ InvokeIn

SpecCopies == InitCopies /\ [][NextCopies]_vars

\* ================================================================ claims
\* what the specification says of the classifier, stated without the code's
\* helpers: the 20 prefixes, compared letter by letter regardless of case
SpecPrefixes == {
    <<"d","e","s","c","r","i","b","e">>, <<"l","i","s","t">>, <<"g","e","t">>,
    <<"f","e","t","c","h">>, <<"r","e","a","d">>, <<"q","u","e","r","y">>,
    <<"s","e","a","r","c","h">>, <<"l","o","o","k","u","p">>, <<"f","i","n","d">>,
    <<"c","h","e","c","k">>, <<"v","a","l","i","d","a","t","e">>,
    <<"i","n","s","p","e","c","t">>, <<"s","c","a","n">>, <<"h","e","a","d">>,
    <<"e","x","i","s","t","s">>, <<"c","o","u","n","t">>,
    <<"e","s","t","i","m","a","t","e">>, <<"p","r","e","v","i","e","w">>,
    <<"s","h","o","w">>, <<"f","i","l","t","e","r">> }

SameLetter(c, small) ==
    \/ c = small
    \/ \E i \in DOMAIN UpperCase : UpperCase[i] = c /\ LowerCase[i] = small

AcceptedBySpec(n) ==
    \E p \in SpecPrefixes :
        /\ Len(p) <= Len(n)
        /\ \A i \in 1..Len(p) : SameLetter(n[i], p[i])

\* the parameter strings that are JSON, and those that are not
ValidTexts ==
    {TextEmptyObject, TextNull, TextMaxResults, TextBogusKey, TextArray, TextNumber,
     TextString}

InvalidTexts == {TextNotJson, TextUnclosed, TextExtraData, TextBlank}

IsFailure(value) == DOMAIN value = {"error"}

Mentions(message, piece) == \E i \in DOMAIN message : message[i] = piece

Invoked == tool = "invoke_aws_api"

\* C1: invoke_aws_api called with parameters that are valid JSON and an
\* operation the classifier rejects returns the "is not allowed" Failure and
\* invokes no provider action, whatever the service; so every operation that
\* ever reached the provider through invoke_aws_api is one the classifier
\* accepts.
C1_ReadOnlyGate ==
    /\ (Invoked /\ args.parameters \in ValidTexts /\ ~AcceptedBySpec(args.operation)) =>
           /\ outcome.kind = "return"
           /\ IsFailure(outcome.value)
           /\ outcome.value.error =
                  <<"Operation '">> \o args.operation \o <<MsgNotAllowed>>
           /\ calls = << >>
    /\ \A r \in reached : r[1] = "invoke_aws_api" => AcceptedBySpec(r[3])

C1_Witness ==
    /\ Invoked
    /\ args.service = "ec2"
    /\ args.operation = terminate_instances
    /\ args.parameters = TextEmptyObject
    /\ Mentions(outcome.value.error, MsgNotAllowed)
    /\ calls = << >>
    /\ <<"invoke_aws_api", "ec2", describe_instances>> \in reached

\* C2: the classifier returns a value for every name, and returns true exactly
\* when the name, letter case aside, starts with one of the 20 prefixes: no
\* word boundary is needed ("getting_started_guide" is accepted), a name
\* starting with no prefix ("terminate_instance", "PutMetricAlarm") and the
\* empty string are rejected.
C2_ClassifierContract ==
    /\ Cardinality(SpecPrefixes) = 20
    /\ verdict \in {"none", "True", "False"}
    /\ verdict # "none" =>
           /\ (verdict = "True") <=> AcceptedBySpec(name)
           /\ name = getting_started_guide => verdict = "True"
           /\ name \in {terminate_instance, PutMetricAlarmName, EmptyName} =>
                  verdict = "False"

C2_Witness == name = getting_started_guide /\ verdict = "True"

\* C3: the classifier gives a name the verdict it gives the lower-cased name
\* ("DescribeInstances" is accepted, "PutMetricAlarm" rejected).
C3_CaseInsensitive ==
    verdict # "none" =>
        /\ (verdict = "True") <=> is_read_operation(lower(name))
        /\ name = DescribeInstances => verdict = "True"
        /\ name = PutMetricAlarmName => verdict = "False"

C3_Witness ==
    /\ name = DescribeInstances
    /\ lower(name) # name
    /\ verdict = "True"

\* C4: every tool function returns and never raises, whatever the provider
\* does; a result is either a success object or an object with the single key
\* "error" holding a message, and it is the latter whenever a client could not
\* be built or a provider action raised.
C4_FaultIsolation ==
    tool # "none" =>
        /\ outcome.kind = "return"
        /\ IsFailure(outcome.value) \/ "function" \in DOMAIN outcome.value
        /\ "error" \in DOMAIN outcome.value =>
               /\ IsFailure(outcome.value)
               /\ \A i \in DOMAIN outcome.value.error : outcome.value.error[i] \in STRING
        /\ (\E i \in DOMAIN calls : calls[i].result.kind = "raise") =>
               IsFailure(outcome.value)

C4_Witness ==
    /\ tool = "read_account_discovery_results"
    /\ Len(calls) = 1
    /\ calls[1].result.kind = "raise"
    /\ outcome = [value |-> Error(calls[1].result.value.msg), kind |-> "return"]

\* C5: invoke_aws_api called with parameters that are not JSON returns the
\* "Invalid JSON in parameters" Failure, whatever the service and the operation
\* (empty, rejected by the classifier or unknown), and neither builds a client
\* nor invokes a provider action.
C5_InvalidJsonFirst ==
    (Invoked /\ args.parameters \in InvalidTexts) =>
        /\ outcome.kind = "return"
        /\ IsFailure(outcome.value)
        /\ Len(outcome.value.error) = 2
        /\ outcome.value.error[1] = MsgInvalidJson
        /\ clients = << >>
        /\ calls = << >>

C5_Witness ==
    /\ Invoked
    /\ args.service = ""
    /\ args.operation = terminate_instances
    /\ args.parameters = TextNotJson
    /\ outcome.value = Error(<<MsgInvalidJson, "Expecting value">>)

\* C6 (as claimed): invoke_aws_api called with a service, the empty operation
\* name and valid parameters returns the "Operation name must be specified"
\* Failure.
C6_EmptyOperationMessage ==
    (Invoked /\ args.service # "" /\ args.operation = EmptyName
        /\ args.parameters \in ValidTexts) =>
        /\ IsFailure(outcome.value)
        /\ Mentions(outcome.value.error, MsgOperationMissing)

\* the check that fails first in the order the specification gives
FirstFailingCheck ==
    IF args.parameters \in InvalidTexts THEN "parse"
    ELSE IF args.service = "" THEN "service"
    ELSE IF args.operation = EmptyName THEN "operation"
    ELSE IF ~AcceptedBySpec(args.operation) THEN "gate"
    ELSE "later"

\* C7 (as claimed): the Failure invoke_aws_api returns is that of the first
\* failing check in the order parse, service, operation, gate, resolve; an
\* empty service with a rejected operation gives "Service name must be
\* specified".
C7_ValidationOrder ==
    Invoked =>
        /\ FirstFailingCheck = "parse" => Mentions(outcome.value.error, MsgInvalidJson)
        /\ FirstFailingCheck = "service" => Mentions(outcome.value.error, MsgServiceMissing)
        /\ FirstFailingCheck = "operation" =>
               Mentions(outcome.value.error, MsgOperationMissing)
        /\ FirstFailingCheck = "gate" => Mentions(outcome.value.error, MsgNotAllowed)

\* C8: invoke_aws_api called with the empty service, an operation the
\* classifier accepts and valid parameters returns the "Service name must be
\* specified" Failure, and neither builds a client nor invokes an action.
C8_EmptyService ==
    (Invoked /\ args.service = "" /\ AcceptedBySpec(args.operation)
        /\ args.parameters \in ValidTexts) =>
        /\ outcome = [value |-> Error(<<MsgServiceMissing>>), kind |-> "return"]
        /\ clients = << >>
        /\ calls = << >>

C8_Witness ==
    /\ Invoked
    /\ args.service = ""
    /\ args.operation = describe_x
    /\ args.parameters = TextEmptyObject
    /\ Mentions(outcome.value.error, MsgServiceMissing)

\* the client of the service has an attribute of exactly this name
IsAction(service, operation) ==
    \E i \in DOMAIN ClientDir(service) : ClientDir(service)[i].name = operation

\* C9: once the client of a service is built, an operation that passed the
\* gate but is not, by its exact name, an action of the client gives the
\* Failure "Operation '<op>' not found in service '<service>'" and no action is
\* invoked; "DescribeInstances" is such a name where "describe_instances" is
\* the action.
C9_ResolutionFailure ==
    (Invoked /\ clients = <<args.service>> /\ args.service # ""
        /\ AcceptedBySpec(args.operation)
        /\ ~IsAction(args.service, args.operation)) =>
        /\ outcome.kind = "return"
        /\ outcome.value =
               Error(<<"Operation '">> \o args.operation \o
                     <<MsgNotFound, args.service, "'">>)
        /\ calls = << >>

C9_Witness ==
    /\ Invoked
    /\ args.service = "ec2"
    /\ args.operation = DescribeInstances
    /\ IsAction("ec2", describe_instances)
    /\ clients = <<"ec2">>
    /\ Mentions(outcome.value.error, MsgNotFound)
    /\ calls = << >>

\* C10: when the provider action invoke_aws_api invoked raises, the action
\* was invoked once and no more, and the result is the Failure whose message
\* is the text of that exception, with no response in it.
C10_ProviderErrorConverted ==
    (Invoked /\ \E i \in DOMAIN calls : calls[i].result.kind = "raise") =>
        /\ Len(calls) = 1
        /\ outcome = [value |-> Error(calls[1].result.value.msg), kind |-> "return"]
        /\ "response" \notin DOMAIN outcome.value

C10_Witness ==
    /\ Invoked
    /\ Len(calls) = 1
    /\ calls[1].result = Raised("ClientError", <<"An error occurred (AccessDenied)">>)
    /\ outcome.value = Error(<<"An error occurred (AccessDenied)">>)

\* the parameter strings that parse to a JSON object, null included, which
\* the code turns into the empty object
ObjectTexts == {TextEmptyObject, TextNull, TextMaxResults, TextBogusKey}

\* the last invocation of invoke_aws_api passed every validation step: the
\* parameters parsed, service and operation are not empty, the classifier
\* accepted the operation and it resolved to an action of the client built
PassedValidation ==
    /\ Invoked
    /\ args.parameters \in ValidTexts
    /\ args.service # ""
    /\ args.operation # EmptyName
    /\ AcceptedBySpec(args.operation)
    /\ clients = <<args.service>>
    /\ IsAction(args.service, args.operation)

\* what invoke_aws_api returns for a provider call it made
AnswerTo(call) ==
    IF call.result.kind = "raise"
    THEN Error(call.result.value.msg)
    ELSE [operation |-> call.operation,
          response |-> serialized_response(call.result.value),
          service |-> call.service,
          function |-> "invoke_aws_api"]

ValidAlarmInputs ==
    /\ tool = "put_metric_alarm"
    /\ json_loads(args.dimensions).ok
    /\ json_loads(args.insufficient_data_actions).ok
    /\ json_loads(args.ok_actions).ok

AlarmTarget == <<"put_metric_alarm", "cloudwatch", put_metric_alarm_name>>

\* the Failure of a tool that could not build its client
NoClient == Error(<<"You must specify a region.">>)

SentUnder(call, key) ==
    {call.kwargs.v[i].v : i \in {n \in DOMAIN call.kwargs.v : call.kwargs.v[n].k = key}}

KeysSent(call) == [i \in DOMAIN call.kwargs.v |-> call.kwargs.v[i].k]

C14_SuccessShape ==
    (Invoked /\ ~IsFailure(outcome.value)) =>
        /\ outcome.kind = "return"
        /\ DOMAIN outcome.value = {"function", "service", "operation", "response"}
        /\ outcome.value.function = "invoke_aws_api"
        /\ outcome.value.service = args.service
        /\ outcome.value.operation = args.operation
        /\ args.parameters \in ValidTexts
        /\ args.service # ""
        /\ args.operation # EmptyName
        /\ AcceptedBySpec(args.operation)
        /\ IsAction(args.service, args.operation)
        /\ Len(calls) = 1
        /\ calls[1].result.kind = "return"

C14_Witness ==
    /\ Invoked
    /\ args.service = "cloudwatch"
    /\ args.operation = describe_alarms
    /\ args.parameters = TextMaxResults
    /\ outcome.value =
           [operation |-> describe_alarms, response |-> RespPlain,
            service |-> "cloudwatch", function |-> "invoke_aws_api"]

RECURSIVE NativeOrTime(_)
\* the value is made of JSON-native values and date/time values only
NativeOrTime(value) ==
    IF value.t \in {"null", "bool", "num", "str", "datetime"} THEN TRUE
    ELSE IF value.t = "arr" THEN \A i \in DOMAIN value.v : NativeOrTime(value.v[i])
    ELSE IF value.t = "obj" THEN \A i \in DOMAIN value.v : NativeOrTime(value.v[i].v)
    ELSE FALSE

RECURSIVE WithIsoStrings(_)
\* the value with every date/time replaced by its ISO-8601 string, and
\* everything else as it is
WithIsoStrings(value) ==
    IF value.t = "datetime" THEN [t |-> "str", v |-> value.v]
    ELSE IF value.t = "arr"
    THEN [t |-> "arr", v |-> [i \in DOMAIN value.v |-> WithIsoStrings(value.v[i])]]
    ELSE IF value.t = "obj"
    THEN [t |-> "obj",
          v |-> [i \in DOMAIN value.v |->
                    [k |-> value.v[i].k, v |-> WithIsoStrings(value.v[i].v)]]]
    ELSE value

RECURSIVE HasTime(_)
HasTime(value) ==
    IF value.t = "datetime" THEN TRUE
    ELSE IF value.t = "arr" THEN \E i \in DOMAIN value.v : HasTime(value.v[i])
    ELSE IF value.t = "obj" THEN \E i \in DOMAIN value.v : HasTime(value.v[i].v)
    ELSE FALSE

\* C15: when the action invoke_aws_api invoked returned a value made of
\* JSON-native values and date/time values, the result is a Success whose
\* response is that value with every date/time replaced by its ISO-8601
\* string and everything else unchanged.
C15_TimestampRoundTrip ==
    (Invoked /\ Len(calls) = 1 /\ calls[1].result.kind = "return"
        /\ NativeOrTime(calls[1].result.value)) =>
        /\ ~IsFailure(outcome.value)
        /\ outcome.value.response = WithIsoStrings(calls[1].result.value)
        /\ ~HasTime(outcome.value.response)
        /\ ~HasTime(calls[1].result.value) =>
               outcome.value.response = calls[1].result.value

C15_Witness ==
    /\ Invoked
    /\ Len(calls) = 1
    /\ calls[1].result = Returned(RespTime)
    /\ HasTime(RespTime)
    /\ outcome.value.response.v[1] = Item("LaunchTime", JStr("2024-05-01T12:00:00+00:00"))
    /\ outcome.value.response.v[2] = Item("Count", JNum("1"))
    /\ outcome.value.response.v[3].v.v[1].v[1] =
           Item("AttachTime", JStr("2024-05-02T08:30:00+00:00"))
    /\ outcome.value.response.v[3].v.v[2] = JStr("2024-05-03T00:00:00")

\* C16: when the action invoke_aws_api invoked returned a value that holds
\* something neither JSON-native nor a date/time, the result is still a
\* Success, of the usual shape, whose response is the string representation
\* of the value returned; it is not a Failure.
C16_SerializationFallback ==
    (Invoked /\ Len(calls) = 1 /\ calls[1].result.kind = "return"
        /\ ~NativeOrTime(calls[1].result.value)) =>
        /\ outcome.kind = "return"
        /\ ~IsFailure(outcome.value)
        /\ DOMAIN outcome.value = {"function", "service", "operation", "response"}
        /\ outcome.value.response = [t |-> "repr", v |-> calls[1].result.value]

C16_Witness ==
    /\ Invoked
    /\ Len(calls) = 1
    /\ calls[1].result = Returned(RespStream)
    /\ ~NativeOrTime(RespStream)
    /\ outcome.value.function = "invoke_aws_api"
    /\ outcome.value.response = PyRepr(RespStream)

\* what the world answered to the requests an invocation made itself: whether
\* its client was built, and what its own provider call returned or raised
EnvOf(f) ==
    [client |-> IF f.client # None /\ f.client.kind = "raise" THEN "raise" ELSE "ok",
     call |-> IF f.response = None THEN Returned(RespPlain) ELSE f.response]

\* the invocation run alone, from its arguments and those answers
Alone(f) == invoke_aws_api(f.service, f.operation, f.parameters, EnvOf(f))

\* C17: in any interleaving of the statements of concurrent invocations of
\* invoke_aws_api, and after any earlier invocations, an invocation returns
\* the result it returns when run alone with the same arguments and the same
\* answers of the provider to its own requests; and while it runs, its
\* parsed parameters, its client and its response are its own.
C17_NonInterference ==
    \A w \in Workers :
        LET alone == Alone(frame[w])
            parsed == json_loads(frame[w].parameters)
        IN /\ pc[w] = "done" =>
                  /\ alone.kind = "return"
                  /\ frame[w].result = alone.value
           /\ pc[w] \in {"gate", "identifiers", "client", "resolve", "call", "serialize"} =>
                  /\ parsed.ok
                  /\ frame[w].api_parameters =
                         IF parsed.val = JNull THEN EmptyObject ELSE parsed.val
           /\ pc[w] \in {"resolve", "call", "serialize"} =>
                  frame[w].client = [value |-> frame[w].service, kind |-> "return"]
           /\ pc[w] = "serialize" =>
                  /\ Len(alone.calls) = 1
                  /\ alone.calls[1].result = frame[w].response
                  /\ alone.calls[1].service = frame[w].service

C17_Witness ==
    /\ pc[1] = "done"
    /\ pc[2] = "serialize"
    /\ frame[1].service = "ec2"
    /\ frame[2].service = "ec2"
    /\ frame[1].parameters = TextMaxResults
    /\ frame[2].parameters = TextEmptyObject
    /\ frame[1].response = Returned(RespPlain)
    /\ frame[2].response = Returned(RespTime)
    /\ frame[1].result.response = RespPlain
    /\ frame[1].result.operation = describe_instances

\* C18: invoke_aws_api called with the parameters string "null" does what it
\* does when called with "{}" and given the same answers by the provider: the
\* same result, the same client built, and, when the operation passes
\* validation, one call of the resolved action with no keyword arguments.
C18_NullIsEmptyObject ==
    (Invoked /\ args.parameters = TextNull) =>
        /\ \E env \in Environments :
               LET r == invoke_aws_api(args.service, args.operation, TextEmptyObject, env)
               IN /\ r.value = outcome.value
                  /\ r.kind = outcome.kind
                  /\ r.clients = clients
                  /\ r.calls = calls
        /\ \A i \in DOMAIN calls : calls[i].kwargs = [t |-> "obj", v |-> << >>]
        /\ PassedValidation => Len(calls) = 1

C18_Witness ==
    /\ Invoked
    /\ args.parameters = TextNull
    /\ args.service = "ec2"
    /\ args.operation = describe_instances
    /\ Len(calls) = 1
    /\ Len(calls[1].kwargs.v) = 0
    /\ calls[1].result = Returned(RespPlain)
    /\ outcome.value.response = RespPlain

\* the parameter strings that are JSON of a shape no action takes: an object
\* with a key the action does not know, an array, a number, a string
WrongKeyTexts == {TextBogusKey}

NonObjectTexts == {TextArray, TextNumber, TextString}

ReadableActions(service) ==
    {ClientDir(service)[i].name :
        i \in {n \in DOMAIN ClientDir(service) :
                  /\ ClientDir(service)[n].callable
                  /\ ClientDir(service)[n].name[1] # "_"
                  /\ AcceptedBySpec(ClientDir(service)[n].name)}}

\* C20: when list_service_operations succeeds, the operations it lists are
\* exactly the callable attributes of the service's client that do not start
\* with an underscore and whose names the classifier accepts, each listed
\* once, and total_operations is the length of the list.
C20_ListedOperations ==
    (tool = "list_service_operations" /\ ~IsFailure(outcome.value)) =>
        /\ DOMAIN outcome.value = {"function", "service", "operations", "total_operations"}
        /\ outcome.value.service = args.service
        /\ \A i \in DOMAIN outcome.value.operations :
               is_read_operation(outcome.value.operations[i])
        /\ Range(outcome.value.operations) = ReadableActions(args.service)
        /\ Cardinality(Range(outcome.value.operations)) = Len(outcome.value.operations)
        /\ outcome.value.total_operations = Len(outcome.value.operations)
        /\ calls = << >>

C20_Witness ==
    /\ tool = "list_service_operations"
    /\ args.service = "cloudwatch"
    /\ outcome.value.operations = <<describe_alarms, <<"g","e","t","_","w","a","i","t","e","r">>>>
    /\ outcome.value.total_operations = 2
    /\ IsAction("cloudwatch", put_metric_alarm_name)
    /\ IsAction("cloudwatch", <<"_","g","e","t","_","w","a","i","t","e","r","_","c","o","n","f","i","g">>)

\* ------------------------------------------------ invoke-investigator lambda
\* the operations the handler called, in order
Effects == [i \in DOMAIN calls |-> calls[i].operation]

DeliveryChain ==
    <<"invoke_agent_runtime", "create_log_stream", "put_log_events", "send_email">>

\* the decoded object the agent runtime answered with
AgentResult == json_loads(calls[1].result.value.body).val

\* the text the handler put into the log event
Delivered == path(calls[3].kwargs, <<"message", "investigation">>).value

\* C21: for every inbound event, one lacking fields and the envelope of the
\* notification service included, lambda_handler returns a status code of 200
\* or of 500, the latter with a JSON body that carries the error; no exception
\* leaves the handler.
C21_BinaryStatus ==
    tool = "lambda_handler" =>
        /\ outcome.kind = "return"
        /\ outcome.value.statusCode \in {200, 500}
        /\ outcome.value.statusCode = 500 =>
               /\ json_loads(outcome.value.body).ok
               /\ contains_key(json_loads(outcome.value.body).val, "error").value

\* C23: for one event whose fields are all there the handler invokes the agent
\* runtime once, then creates the log stream, then writes the log event, then
\* sends the email, each at most once and in that order. An already existing
\* stream does not stop it. The log event is written only after the agent's
\* answer was received and parsed, the email is sent only after the log write
\* succeeded, a failure is the last effect and gives 500, and 200 is returned
\* only after the email was sent.
C23_DeliveryOrder ==
    (tool = "lambda_handler" /\ outcome.kind = "return") =>
        /\ Len(calls) >= 1
        /\ Effects = SubSeq(DeliveryChain, 1, Len(calls))
        /\ Len(calls) >= 2 =>
               /\ calls[1].result.kind = "return"
               /\ calls[1].result.value.utf8
               /\ json_loads(calls[1].result.value.body).ok
        /\ Len(calls) >= 3 =>
               \/ calls[2].result.kind = "return"
               \/ calls[2].result.value.type = "ResourceAlreadyExistsException"
        /\ (/\ Len(calls) = 2
            /\ calls[2].result.kind = "raise") =>
               calls[2].result.value.type # "ResourceAlreadyExistsException"
        /\ Len(calls) >= 4 => calls[3].result.kind = "return"
        /\ \A i \in DOMAIN calls :
               (/\ calls[i].result.kind = "raise"
                /\ ~(i = 2 /\ calls[i].result.value.type = "ResourceAlreadyExistsException"))
               => (i = Len(calls) /\ outcome.value.statusCode = 500)
        /\ outcome.value.statusCode = 200 <=>
               (Len(calls) = 4 /\ calls[4].result.kind = "return")
        /\ outcome.value.statusCode \in {200, 500}

C23_Witness ==
    /\ tool = "lambda_handler"
    /\ args = EventDirect
    /\ Len(calls) = 4
    /\ Effects = DeliveryChain
    /\ calls[2].result.kind = "raise"
    /\ calls[2].result.value.type = "ResourceAlreadyExistsException"
    /\ calls[4].result.kind = "return"
    /\ outcome.kind = "return"
    /\ outcome.value.statusCode = 200

\* what the claim names as the delivered text, for a decoded answer
Selected(result) ==
    IF contains_key(result, "content").value
    THEN path(result, <<"content", "[0]", "text">>).value
    ELSE IF contains_key(result, "response").value
    THEN subscript(result, "response").value
    ELSE JStr(render(result))

\* C24 as claimed: the delivered text is result['content'][0]['text'] when
\* 'content' is there, else result['response'] when 'response' is there, else
\* the rendering of the whole object.
C24_DeliveredAsSelected ==
    (tool = "lambda_handler" /\ Len(calls) >= 3) =>
        Delivered = Selected(AgentResult)

\* C24: the delivered text is result['content'][0]['text'] without its leading
\* and trailing whitespace when 'content' is there, else result['response']
\* when 'response' is there, else the rendering of the whole object; and for
\* every object the investigator's entrypoint returns it is the rendering of
\* the whole object.
C24_DeliveredStripped ==
    (tool = "lambda_handler" /\ Len(calls) >= 3) =>
        /\ Delivered = IF contains_key(AgentResult, "content").value
                       THEN JStr(strip(Selected(AgentResult).v))
                       ELSE Selected(AgentResult)
        /\ AgentResult \in InvestigatorResults =>
               /\ ~contains_key(AgentResult, "content").value
               /\ ~contains_key(AgentResult, "response").value
               /\ Delivered = JStr(render(AgentResult))

C24_Witness ==
    /\ tool = "lambda_handler"
    /\ Len(calls) >= 3
    /\ AgentResult = ResultContent
    /\ Delivered =
           JStr(<<"<html>", "<p>", "\n", "root cause", "</p>", "</html>">>)
    /\ Delivered # Selected(AgentResult)

\* ------------------------------------------------------ put_metric_alarm inputs
\* the call made carries DatapointsToAlarm and Unit exactly when the argument
\* is not None, with the argument as value
OptionalSent(call) ==
    /\ SentUnder(call, "DatapointsToAlarm") =
           IF args.datapoints_to_alarm = None THEN {} ELSE {args.datapoints_to_alarm}
    /\ SentUnder(call, "Unit") = IF args.unit = None THEN {} ELSE {args.unit}

InvalidJsonFailure ==
    /\ IsFailure(outcome.value)
    /\ outcome.value.error[1] = MsgInvalidJson
    /\ calls = << >>
    /\ clients = << >>

\* C25 as claimed: with one of the three JSON arguments invalid the tool
\* returns the Failure "Invalid JSON in parameters: ..." without calling the
\* provider, and otherwise it makes exactly one put_metric_alarm call, which
\* carries DatapointsToAlarm and Unit exactly when the argument is not None.
C25_ExactlyOneAlarmCall ==
    tool = "put_metric_alarm" =>
        IF ~ValidAlarmInputs THEN InvalidJsonFailure
        ELSE /\ Len(calls) = 1
             /\ calls[1].operation = put_metric_alarm_name
             /\ OptionalSent(calls[1])

\* C25: with one of the three JSON arguments invalid the tool returns the
\* Failure "Invalid JSON in parameters: ..." without calling the provider.
\* Otherwise, once the cloudwatch client is built, it makes exactly one
\* put_metric_alarm call, which carries DatapointsToAlarm and Unit exactly
\* when the argument is not None; when the client cannot be built it returns
\* a Failure and makes no call.
C25_AlarmInputs ==
    tool = "put_metric_alarm" =>
        IF ~ValidAlarmInputs THEN InvalidJsonFailure
        ELSE \/ /\ Len(calls) = 1
                /\ calls[1].service = "cloudwatch"
                /\ calls[1].operation = put_metric_alarm_name
                /\ OptionalSent(calls[1])
             \/ /\ calls = << >>
                /\ clients = << >>
                /\ outcome.value = NoClient

C25_Witness ==
    /\ ValidAlarmInputs
    /\ args.datapoints_to_alarm = None
    /\ args.unit = JStr("Percent")
    /\ Len(calls) = 1
    /\ calls[1].operation = put_metric_alarm_name
    /\ SentUnder(calls[1], "Unit") = {JStr("Percent")}
    /\ SentUnder(calls[1], "DatapointsToAlarm") = {}
    /\ Len(calls[1].kwargs.v) = 16

\* ------------------------------------------------ entrypoints and the storage
StoredMessage == JObj(<<Item("message", JStr(<<MsgStored>>))>>)

\* {"message": "Error processing request: <text>"}
ErrorMessage(text) == JObj(<<Item("message", JStr(<<MsgErrorProcessing>> \o text))>>)

Sent(call, key) == subscript(call.kwargs, key).value

\* what the discovery entrypoint did in its last invocation: a put_object
\* only as second call, after the agent answered, of the agent's answer as
\* text under the key of the discovery results; the stored-message only with
\* that write done and the object in the storage; nothing after an agent
\* failure
DiscoveryOrdered ==
    tool = "invoke_discovery" =>
        /\ \A i \in DOMAIN calls :
               calls[i].operation = put_object =>
                   /\ i = 2
                   /\ calls[1].operation = "agent"
                   /\ calls[1].result.kind = "return"
                   /\ Sent(calls[i], "Bucket") = JStr(DiscoveryBucket)
                   /\ Sent(calls[i], "Key") = JStr(DiscoveryKey)
                   /\ Sent(calls[i], "Body") = encode_utf8(render(calls[1].result.value))
        /\ outcome.value = StoredMessage =>
               /\ Len(calls) = 2
               /\ calls[2].operation = put_object
               /\ calls[2].result.kind = "return"
               /\ s3_get(stored, DiscoveryBucket, DiscoveryKey) =
                      Returned(Sent(calls[2], "Body"))
        /\ (calls # << >> /\ calls[1].result.kind = "raise") => Len(calls) = 1

\* a read that succeeded asked for the key of the discovery results and
\* returns the text the storage holds under it
ReadReturnsStored ==
    (tool = "read_account_discovery_results" /\ ~IsFailure(outcome.value)) =>
        /\ Len(calls) = 1
        /\ Sent(calls[1], "Bucket") = JStr(DiscoveryBucket)
        /\ Sent(calls[1], "Key") = JStr(DiscoveryKey)
        /\ s3_get(stored, DiscoveryBucket, DiscoveryKey).kind = "return"
        /\ outcome.value.results = s3_get(stored, DiscoveryBucket, DiscoveryKey).value.body

\* the storage changes only with a discovery run that reports the write; a
\* read that follows such a run and succeeds returns the text of that run
WriteThenRead ==
    /\ stored' # stored => (tool' = "invoke_discovery" /\ outcome'.value = StoredMessage)
    /\ (/\ tool = "invoke_discovery"
        /\ outcome.value = StoredMessage
        /\ tool' = "read_account_discovery_results"
        /\ ~IsFailure(outcome'.value)) =>
           outcome'.value.results = render(calls[1].result.value)

\* C26: the discovery entrypoint writes discovery-results.md to noop-storage
\* only after the agent call returned, reports the write only if it was done,
\* and writes nothing when the agent call failed; the reporting agent's read
\* asks for the same bucket and key, so that a read after a successful
\* discovery run returns the text of the latest successful write.
C26_WriteBeforeRead ==
    /\ [](DiscoveryOrdered /\ ReadReturnsStored)
    /\ [][WriteThenRead]_vars

C26_Witness ==
    /\ tool = "read_account_discovery_results"
    /\ ninv = 2
    /\ Len(calls) = 1
    /\ calls[1].result.kind = "return"
    /\ outcome.value.results = render(Message(<<"no findings">>))
    /\ s3_get(stored, DiscoveryBucket, DiscoveryKey) =
           Returned(encode_utf8(render(Message(<<"no findings">>))))

Entrypoints ==
    {"invoke_investigator", "invoke_alarming", "invoke_reporting", "invoke_discovery"}

\* the prompt an entrypoint uses for a payload without one
DefaultOf(t) == IF t = "invoke_alarming" THEN DefaultPromptAlarming ELSE DefaultPrompt

\* what an entrypoint returns when nothing failed
Answer(t) ==
    IF t = "invoke_discovery" THEN StoredMessage
    ELSE JObj(<<Item(IF t = "invoke_reporting" THEN "response" ELSE "result",
                     calls[1].result.value)>>)

\* C27: an entrypoint returns a dict for every payload and raises nothing. A
\* payload that is a dict without "prompt" has the agent run on the default
\* prompt. An exception, of the payload's handling, of the agent run or of a
\* later step, is returned as {"message": "Error processing request: ..."}
\* with the exception's text.
C27_EntrypointsNeverRaise ==
    tool \in Entrypoints =>
        /\ outcome.kind = "return"
        /\ outcome.value.t = "obj"
        /\ (args.t = "obj" /\ ~contains_key(args, "prompt").value) =>
               /\ Len(calls) >= 1
               /\ calls[1].operation = "agent"
               /\ calls[1].kwargs = DefaultOf(tool)
        /\ calls = << >> =>
               /\ outcome.value # ErrorMessage(<< >>)
               /\ \E text \in {SubSeq(Sent([kwargs |-> outcome.value], "message").v, 2,
                                      Len(Sent([kwargs |-> outcome.value], "message").v))} :
                      outcome.value = ErrorMessage(text)
        /\ (calls # << >> /\ calls[Len(calls)].result.kind = "raise") =>
               outcome.value = ErrorMessage(calls[Len(calls)].result.value.msg)
        /\ (calls # << >> /\ calls[Len(calls)].result.kind = "return") =>
               \/ outcome.value = Answer(tool)
               \/ /\ tool = "invoke_discovery"
                  /\ Len(calls) = 1
                  /\ clients = << >>
                  /\ outcome.value = ErrorMessage(<<"You must specify a region.">>)

C27_Witness ==
    /\ tool = "invoke_alarming"
    /\ args = EmptyObject
    /\ Len(calls) = 1
    /\ calls[1].kwargs = DefaultPromptAlarming
    /\ calls[1].result.kind = "raise"
    /\ outcome.kind = "return"
    /\ outcome.value = ErrorMessage(<<"Too many requests">>)

\* ---------------------------------------------------- calculate_time_range
TimeRange == tool = "calculate_time_range"

\* the datetimes at the two ends of the range returned
EndOfRange == outcome.value.end_time.iso_format.isoformat

StartOfRange == outcome.value.start_time.iso_format.isoformat

\* the ticks in the duration asked for
TicksAsked == args.duration_minutes * 60 * TicksPerSecond

\* the end the tool takes for the end_time asked for: what the text says, or
\* the clock for "now" and for a text that does not parse
EndsAsked ==
    IF args.end_time # NowText /\ fromisoformat(replace_Z(args.end_time)).ok
    THEN {fromisoformat(replace_Z(args.end_time)).val}
    ELSE Clock

SecondsApart ==
    outcome.value.end_time.timestamp_seconds - outcome.value.start_time.timestamp_seconds

C22_CopiesAgree ==
    /\ tool = "is_read_operation" =>
           \A agent \in Agents :
               is_read_operation_in(agent, args.operation) = outcome.value
    /\ tool = "invoke_aws_api" =>
           \A agent \in Agents :
               LET r == invoke_aws_api_in(agent, args.service, args.operation,
                                          args.parameters, args.env)
               IN /\ r.kind = outcome.kind
                  /\ r.value = outcome.value
                  /\ r.clients = clients
                  /\ r.calls = calls

C22_Witness ==
    /\ tool = "invoke_aws_api"
    /\ args.agent = "reporting"
    /\ args.operation = describe_instances
    /\ args.service = "ec2"
    /\ args.parameters = TextEmptyObject
    /\ Len(calls) = 1
    /\ calls[1].result = Returned(RespTime)
    /\ ~IsFailure(outcome.value)
    /\ invoke_aws_api_alarming("ec2", describe_instances, TextEmptyObject, args.env).calls = calls

====
